---- MODULE Spec2Model ----
(***************************************************************************)
(* The asynchronous report-generation job pipeline of valohub:             *)
(*   services/analytical_jobs.py   AnalyticalJobStore (Redis log/meta/     *)
(*                                 input queue of one job)                 *)
(*   app.py                        create_analytical_job,                  *)
(*                                 analytical_job_input,                   *)
(*                                 cancel_analytical_job,                  *)
(*                                 analytical_job_stream                   *)
(*   jobs/analytical_report_job.py run_analytical_report_job, prompt_user  *)
(*   analytical_rep.py             _request_prompt, _pick_matches,         *)
(*                                 generate_analytical_report,             *)
(*                                 _execute_with_retry, _throttle_writes,  *)
(*                                 WorksheetUpdateBuffer, _add_image       *)
(* One job (one job_id) is followed through the web process, the RQ queue  *)
(* "analytical-reports" and the RQ worker.  A status update is two steps,  *)
(* as in update_status: the hset of meta, then the status event.  The      *)
(* Worker's work between two prompts is one step; the web process and the  *)
(* Worker interleave at every step.  SpecStore and SpecStream follow the    *)
(* store's callers and one stream client Redis command by Redis command,   *)
(* with the timestamp and payload of every event.                          *)
(***************************************************************************)
EXTENDS Integers, Sequences, FiniteSets, TLC

\* ------------------------------------------------------------------ bounds
\* Largest GOOGLE_SHEETS_MAX_RETRIES tried, calls of the writer followed
MaxRetries == 2
MaxCalls == 2
\* max_batch_size of the buffer followed, update() calls made on it
MaxBatch == 2
MaxUpdates == 4
MaxPrompts == 2      \* prompts one run of the worker may issue
MaxInputs == 1       \* push_user_input calls made for the job
MaxBootstraps == 2   \* consecutive bootstrap calls for one job id
MaxPrior == 2        \* entries a job id's log and input queue hold beforehand
MaxSelectionPrompts == 3  \* prompts of one match selection the user changes
MaxSelectionAnswers == 4  \* answers given during one match selection
MaxQueued == 2       \* inputs sent to one job at any time
MaxAnswers == 2      \* answers given to open prompts, one per prompt
MaxPolls == 1        \* pop_user_input timeouts counted after a cancel request
MaxCancels == 1      \* cancel requests made while the job is not terminal
MaxOther == 1        \* tasks of other jobs enqueued on the same RQ queue
Available == 2       \* len(context.matches): matches in the team's history
\* Largest log_limit a store is built with, append_event calls followed on
\* it, ticks of the wall clock
MaxLimit == 2
MaxAppends == 2
MaxClock == 1

\* ------------------------------------------------------- program constants
LOG_LENGTH_SOFT_LIMIT == 500

log_limit == LOG_LENGTH_SOFT_LIMIT

TerminalStatuses == {"finished", "failed", "cancelled"}

Statuses == {"queued", "started", "running", "cancelling"} \cup TerminalStatuses

\* spec.get("default") is None
NoDefault == "<none>"

\* What a client may type, after .strip(): nothing, a yes-value, a no-value,
\* a positive integer.
Texts == {"", "yes", "no", "1"}

\* Prompt ids a client may declare with an input: none (0), or the id of
\* the job's second prompt, which is another prompt's id while the first
\* prompt is open.
DeclaredIds == {0, 2}

yes_values == {"yes", "y", "proceed", "p"}

no_values == {"no", "n", "change", "c"}

\* int(response) of request_count: 0 stands for ValueError (not an integer,
\* or an integer <= 0).
ParseInt(t) ==
  CASE t = "1" -> 1
    [] t = "2" -> 2
    [] t = "3" -> 3
    [] t = "4" -> 4
    [] OTHER -> 0

\* str(current)
StrInt(n) ==
  CASE n = 1 -> "1"
    [] n = 2 -> "2"
    [] n = 3 -> "3"
    [] n = 4 -> "4"
    [] OTHER -> ""

Min(a, b) == IF a < b THEN a ELSE b

Max(a, b) == IF a > b THEN a ELSE b

\* ------------------------------------------------------------------ events
\* One record shape for every event type: `status` is payload.status of a
\* status event, `id` is payload.id (prompt, prompt_resolved) or
\* payload.prompt_id (user_message; 0 when absent), `text` the message,
\* response or declared default.
Ev(t, o, s, i, x) == [type |-> t, origin |-> o, status |-> s, id |-> i, text |-> x]

StatusEvent(s) == Ev("status", "system", s, 0, "")

ProgressEvent(x) == Ev("progress", "system", "", 0, x)

PromptEvent(i, d) == Ev("prompt", "system", "", i, d)

PromptResolvedEvent(i, r) == Ev("prompt_resolved", "system", "", i, r)

ErrorEvent(x) == Ev("error", "system", "", 0, x)

\* Variant: the success is only reported as one more progress message.
CompletedAsProgress == Ev("progress", "system", "", 0, "result")

CompletedEvent == Ev("completed", "system", "", 0, "result")

UserMessageEvent(m, p) == Ev("user_message", "user", "", p, m)

\* ------------------------------------------------------ AnalyticalJobStore
\* Variant: the trim keeps the oldest entries instead of the newest.
ltrim_keeps_head(l, limit) == SubSeq(l, 1, Min(Len(l), limit))

\* Redis LTRIM key -limit -1: a negative start counts from the tail and is
\* clamped to the head of the list; -0 is 0, the head itself.
ltrim(l, limit) ==
  LET start == IF limit = 0 THEN 1 ELSE Max(Len(l) - limit, 0) + 1
  IN SubSeq(l, start, Len(l))

\* rpush + ltrim(-log_limit, -1) of append_event (one pipeline).
append_event(l, ev) == ltrim(Append(l, ev), log_limit)

\* Consecutive append_event calls of one caller.
RECURSIVE AppendAll(_, _)
AppendAll(l, evs) ==
  IF evs = <<>> THEN l ELSE AppendAll(append_event(l, Head(evs)), Tail(evs))

\* The meta hash of a job that was never bootstrapped (hgetall gives {}).
NoMeta == [exists |-> FALSE, status |-> "", error |-> "", result |-> "",
           team_name |-> "", cancelled_by |-> ""]

\* The hash bootstrap writes after deleting the old one.
bootstrap_meta == [NoMeta EXCEPT !.exists = TRUE, !.status = "queued"]

\* The hset of update_status(job_id, status): status (and updated_at).
update_status_meta(m, s) == [m EXCEPT !.exists = TRUE, !.status = s]

\* Variant: the failure status is written without the error message.
update_status_failed_no_error(m, msg) == [m EXCEPT !.exists = TRUE, !.status = "failed"]

\* Variant: the failure is only logged, the stored status is left as it was.
update_status_failed_not_stored(m, msg) == m

\* The hset of update_status(job_id, "failed", error=message).
update_status_failed_meta(m, msg) ==
  [m EXCEPT !.exists = TRUE, !.status = "failed", !.error = msg]

\* merge_meta(job_id, {"result": ..., "completed_at": ...})
merge_meta_result(m) == [m EXCEPT !.exists = TRUE, !.result = "result"]

\* merge_meta(job_id, {"team_name": ...})
merge_meta_team(m) == [m EXCEPT !.exists = TRUE, !.team_name = "team"]

\* The queue payload of push_user_input; prompt_id 0 is None.
QueueEntry(m, p) == [message |-> m, prompt_id |-> p]

\* ------------------------------------------------------------------- state
VARIABLES
  meta,          \* the job's meta hash
  log,           \* the job's event log (Redis list)
  inputQ,        \* the job's input queue (Redis list)
  taskQueue,     \* the RQ queue: "J" is this job's task, "O" another job's
  submitPc,      \* create_analytical_job: position of the request handler
  submitResp,    \* its response: [code, status]
  match_count,   \* the submitted match count (0 is None)
  workerPc,      \* run_analytical_report_job: position of the worker
  workerExc,     \* the exception caught by the worker: [kind, message]
  workerResult,  \* how run_analytical_report_job ended: returned / raised
  count,         \* _pick_matches: the count currently selected (0: none yet)
  selected,      \* _pick_matches: the match ids it returned
  prompt,        \* prompt_user: the spec being asked: [id, kind, default]
  nextPromptId,  \* the next fresh prompt id (uuid4().hex)
  user_message,  \* prompt_user: the entry pop_user_input returned last
  answer,        \* prompt_user: the response taken from it
  polls,         \* pop_user_input timeouts seen since a cancel request
  inputsPushed,  \* number of push_user_input calls started
  cancelPc,      \* cancel_analytical_job: position of the request handler
  cancelResp,    \* its last response: [code, status]
  cancelCalls,   \* cancel requests that found the job not terminal
  otherTasks     \* number of other jobs' tasks enqueued so far

\* The Resilient API Writer (analytical_rep.py module state and one call of
\* _execute_with_retry); times are in tenths of a second.
VARIABLES
  sleep_fn,       \* _SLEEP_FN: "time.sleep" or the Worker job's "capped"
  max_retries,    \* _WRITE_MAX_RETRIES
  now,            \* time.monotonic()
  last_write_ts,  \* _LAST_WRITE_TS
  writerPc,       \* _execute_with_retry: position in the current call
  attempt,        \* _execute_with_retry: its local `attempt`
  attempts,       \* operation() invocations of the current call
  rejections,     \* 429 rejections of the current call
  lastError,      \* what the last operation() invocation raised
  writerResult,   \* how the current call ended
  prevStart,      \* start time of the operation() invocation before the last
  curStart,       \* start time of the last operation() invocation (-1: none)
  requested,      \* the backoffs computed in the current call, in order
  slept,          \* the durations actually slept for them
  calls           \* calls of _execute_with_retry made so far

\* One WorksheetUpdateBuffer.
VARIABLES
  buffers,        \* self._buffers: mode -> pending entries
  sent,           \* mode -> the batches passed to worksheet.batch_update
  updates,        \* mode -> the entries of the update() calls made
  bufferPc,       \* "open", "flush_user" (flush() between its two calls),
                  \* "flushed", "failed"
  nextEntry       \* label of the next update() call

\* One job's Redis keys as the store's callers and a stream client see
\* them, with the timestamp and the whole payload of every event.
VARIABLES
  clock,          \* datetime.now(timezone.utc), in ticks
  store_log_limit,\* self.log_limit of the store
  callers,        \* process -> [pc, message, args] of its call of the store
  raw_log,        \* keys.log: the serialized events
  published,      \* what was published on keys.channel, in order
  appends,        \* the events appended since bootstrap, in order
  input_key,      \* keys.input: the serialized queue payloads
  pushed,         \* the queue payloads pushed, in rpush order
  popped,         \* what pop_user_input returned, in order
  appendCalls,    \* append_event calls started
  streamPc,       \* analytical_job_stream: position of the handler
  pubsub,         \* messages received by its subscription, not yet read
  delivered,      \* the events it yielded to the client, in order
  keepalives,     \* parity of the keep-alive comments it yielded
  subscribedAt,   \* number of events appended when it subscribed
  replayed        \* what lrange returned to its replay

\* One caller of bootstrap for a job id whose keys may already exist.
VARIABLES
  bootPc,         \* bootstrap: "idle", "event" (pipeline executed), "returned"
  bootCalls,      \* bootstrap calls started
  prior           \* meta, log and input queue when the last call started

\* One call of _execute_with_retry and one image insertion of _add_image
\* whose requests meet the same outcomes.
VARIABLES
  execRun,        \* _execute_with_retry: [pc, attempt, attempts, throttles,
                  \* backoffs, result]
  imageRun,       \* the loop of _add_image, likewise
  retryRuns       \* pairs of calls started

jobVars == <<meta, log, inputQ, taskQueue, submitPc, submitResp, match_count,
          workerPc, workerExc, workerResult, count, selected, prompt,
          nextPromptId, user_message, answer, polls, inputsPushed, cancelPc,
          cancelResp, cancelCalls, otherTasks>>

writerVars == <<sleep_fn, max_retries, now, last_write_ts, writerPc, attempt,
                attempts, rejections, lastError, writerResult, prevStart,
                curStart, requested, slept, calls>>

bufferVars == <<buffers, sent, updates, bufferPc, nextEntry>>

redisVars == <<clock, store_log_limit, callers, raw_log, published, appends,
               input_key, pushed, popped, appendCalls>>

streamVars == <<streamPc, pubsub, delivered, keepalives, subscribedAt, replayed>>

bootVars == <<bootPc, bootCalls, prior>>

imageVars == <<execRun, imageRun, retryRuns>>

extraVars == <<bootVars, imageVars>>

sheetVars == <<writerVars, bufferVars, redisVars, streamVars, extraVars>>

vars == <<jobVars, writerVars, bufferVars, redisVars, streamVars, extraVars>>

storeVars == <<meta, log, inputQ>>

submitVars == <<submitPc, submitResp, match_count>>

workerVars == <<workerPc, workerExc, workerResult, count, selected, prompt,
                nextPromptId, user_message, answer, polls>>

inputVars == <<inputsPushed>>

cancelVars == <<cancelPc, cancelResp, cancelCalls>>

NoResp == [code |-> 0, status |-> ""]

NoExc == [kind |-> "none", message |-> ""]

NoPrompt == [id |-> 0, kind |-> "none", default |-> NoDefault]

NoEntry == [message |-> "<none>", prompt_id |-> 0]

\* context.matches, most recent first
Matches == [i \in 1..Available |-> i]

\* ------------------------------------------------- Resilient API Writer
\* GOOGLE_SHEETS_WRITE_THROTTLE_SECONDS, default 1.0 s
WRITE_THROTTLE_SECONDS == 10

\* GOOGLE_SHEETS_BACKOFF_SECONDS, default 5.0 s
WRITE_BACKOFF_SECONDS == 50

\* GOOGLE_SHEETS_MAX_RETRIES, default 6
WRITE_MAX_RETRIES == 6

\* min(60.0, ...) of _execute_with_retry
BACKOFF_CEILING == 600

\* min(seconds, 0.6) of the sleep_fn the Worker job passes
WORKER_SLEEP_CAP == 6

\* The sleep functions _set_sleep_fn installs: time.sleep (the default) and
\* the Worker job's lambda seconds: time.sleep(min(seconds, 0.6)).
SleepFns == {"time.sleep", "capped"}

\* The time that passes in _SLEEP_FN(duration)
Slept(fn, duration) ==
  IF fn = "capped" THEN Min(duration, WORKER_SLEEP_CAP) ELSE duration

\* _sleep 166-173: nothing for a duration <= 0
sleep(fn, duration) == IF duration <= 0 THEN 0 ELSE Slept(fn, duration)

\* What operation() does in one invocation: it returns, or raises an
\* APIError (status_code of its response, code of its payload; 0 is None),
\* or raises an error of another class.
NoError == [class |-> "none", status_code |-> 0, code |-> 0]

ApiError(sc, c) == [class |-> "APIError", status_code |-> sc, code |-> c]

OtherError == [class |-> "ConnectionError", status_code |-> 0, code |-> 0]

Outcomes ==
  {NoError, ApiError(429, 0), ApiError(0, 429), ApiError(500, 0),
   ApiError(0, 0), OtherError}

\* _extract_api_status 188-205 (0 is None)
extract_api_status(error) ==
  IF error.status_code # 0 THEN error.status_code
  ELSE IF error.code # 0 THEN error.code
  ELSE 0

\* How a call of _execute_with_retry ends.
NoResult == [kind |-> "none", description |-> "", cause |-> NoError]

\* No call of _execute_with_retry was made yet; _LAST_WRITE_TS = 0.0.
WriterIdle ==
  /\ last_write_ts = 0
  /\ writerPc = "idle"
  /\ attempt = 0
  /\ attempts = 0
  /\ rejections = 0
  /\ lastError = NoError
  /\ writerResult = NoResult
  /\ prevStart = -1
  /\ curStart = -1
  /\ requested = <<>>
  /\ slept = <<>>
  /\ calls = 0

\* The writer before any call, with the module defaults.
WriterInit ==
  /\ sleep_fn = "time.sleep"
  /\ max_retries = WRITE_MAX_RETRIES
  /\ now = 0
  /\ WriterIdle

\* ---------------------------------------------------- WorksheetUpdateBuffer
Modes == {"RAW", "USER_ENTERED"}

\* WorksheetUpdateBuffer.__init__ 57-63
BufferInit ==
  /\ buffers = [m \in Modes |-> <<>>]
  /\ sent = [m \in Modes |-> <<>>]
  /\ updates = [m \in Modes |-> <<>>]
  /\ bufferPc = "open"
  /\ nextEntry = 1

\* ------------------------------------- AnalyticalJobStore under its callers
\* Python's None; `if author:` is false for None and for "".
None == "<None>"

Truthy(x) == x # None /\ x # ""

\* append_event 109-114: the message, stamped where it is built
Message(event_type, origin, body, timestamp) ==
  [type |-> event_type, origin |-> origin, payload |-> body,
   timestamp |-> timestamp]

\* json.dumps(..., ensure_ascii=True) and json.loads of what it produced
json_dumps(message) == <<"json", message>>

json_loads(raw) == raw[2]

\* Payloads carry the keys message, author, prompt_id, status; an absent key
\* reads as None.
\* emit_progress: {"message": message}
progress_payload(message) ==
  [message |-> message, author |-> None, prompt_id |-> None, status |-> None]

\* update_status 88: {"status": status, "updated_at": ...}
status_payload(status) ==
  [message |-> None, author |-> None, prompt_id |-> None, status |-> status]

\* push_user_input 168-172: author and prompt_id are set only when truthy
user_payload(message, author, prompt_id) ==
  [message |-> message,
   author |-> IF Truthy(author) THEN author ELSE None,
   prompt_id |-> IF Truthy(prompt_id) THEN prompt_id ELSE None,
   status |-> None]

\* Variant: the queue payload loses the declared prompt id.
queue_payload_without_prompt_id(message, author, prompt_id) ==
  [message |-> message, author |-> author, prompt_id |-> None]

\* push_user_input 175: the queue payload keeps the three arguments as given
queue_payload(message, author, prompt_id) ==
  [message |-> message, author |-> author, prompt_id |-> prompt_id]

\* The processes calling the store for one job: two request threads of the
\* web process and the RQ worker.
Webs == {"web1", "web2"}

Procs == Webs \cup {"worker"}

\* (author, prompt_id) of a request: session.get("username") and the
\* stripped prompt_id of the request or None.
Requests == {<<"alice", None>>, <<None, "p1">>}

\* A caller outside the store: no message built, no queue payload held.
NoMessage == Message(None, None, progress_payload(None), 0)

NoArgs == queue_payload(None, None, None)

NoCall == [pc |-> "idle", message |-> NoMessage, args |-> NoArgs]

\* The job's keys after bootstrap's delete, seen by a store built with
\* log_limit = limit.
RedisInit(limit) ==
  /\ clock = 0
  /\ store_log_limit = limit
  /\ callers = [p \in Procs |-> NoCall]
  /\ raw_log = <<>>
  /\ published = <<>>
  /\ appends = <<>>
  /\ input_key = <<>>
  /\ pushed = <<>>
  /\ popped = <<>>
  /\ appendCalls = 0

\* No stream was requested.
StreamInit ==
  /\ streamPc = "none"
  /\ pubsub = <<>>
  /\ delivered = <<>>
  /\ keepalives = 0
  /\ subscribedAt = 0
  /\ replayed = <<>>

\* bootstrap was not called.
BootIdle ==
  /\ bootPc = "idle"
  /\ bootCalls = 0
  /\ prior = [meta |-> NoMeta, log |-> <<>>, inputQ |-> <<>>]

\* Neither retry loop was entered.
NoRun == [pc |-> "idle", attempt |-> 0, attempts |-> 0, throttles |-> 0,
          backoffs |-> <<>>, result |-> "none"]

ImageIdle ==
  /\ execRun = NoRun
  /\ imageRun = NoRun
  /\ retryRuns = 0

\* -------------------------------------------------------------------- Init
InitJob ==
  /\ meta = NoMeta
  /\ log = <<>>
  /\ inputQ = <<>>
  /\ taskQueue = <<>>
  /\ submitPc = "idle"
  /\ submitResp = NoResp
  /\ match_count = 0
  /\ workerPc = "none"
  /\ workerExc = NoExc
  /\ workerResult = "none"
  /\ count = 0
  /\ selected = <<>>
  /\ prompt = NoPrompt
  /\ nextPromptId = 1
  /\ user_message = NoEntry
  /\ answer = ""
  /\ polls = 0
  /\ inputsPushed = 0
  /\ cancelPc = "idle"
  /\ cancelResp = NoResp
  /\ cancelCalls = 0
  /\ otherTasks = 0

Init ==
  /\ InitJob
  /\ WriterInit
  /\ BufferInit
  /\ RedisInit(log_limit)
  /\ StreamInit
  /\ BootIdle
  /\ ImageIdle

\* ----------------------------------------------------------- bootstrap
\* Variant: the old key is left in place.
delete_skipped(value, empty) == value

\* bootstrap 79: pipe.delete(keys.log, keys.input, keys.meta); a deleted
\* list reads as empty, a deleted hash as {}.
delete(value, empty) == empty

\* bootstrap 80: pipe.hset(keys.meta, mapping=...) of the initial fields
hset_bootstrap(m) == [m EXCEPT !.exists = TRUE, !.status = "queued"]

\* Hashes a job id may hold before bootstrap: none, a queued job's, a
\* failed job's, a finished job's.
PriorMetas ==
  {NoMeta, bootstrap_meta,
   update_status_failed_meta(merge_meta_team(bootstrap_meta), "boom"),
   merge_meta_result(update_status_meta(bootstrap_meta, "finished"))}

PriorEvents == {StatusEvent("finished"), ProgressEvent("queued"), CompletedEvent}

PriorInputs == {QueueEntry("yes", 0), QueueEntry("1", 2)}

\* The sequences over S of length at most n
SeqsUpTo(S, n) == UNION {[1..k -> S] : k \in 0..n}

\* bootstrap 62-81: the pipeline delete + hset, executed as one transaction
BootstrapPipeline ==
  /\ bootPc \in {"idle", "returned"}
  /\ bootCalls < MaxBootstraps
  /\ prior' = [meta |-> meta, log |-> log, inputQ |-> inputQ]
  /\ log' = delete(log, <<>>)
  /\ inputQ' = delete(inputQ, <<>>)
  /\ meta' = hset_bootstrap(delete(meta, NoMeta))
  /\ bootCalls' = bootCalls + 1
  /\ bootPc' = "event"
  /\ UNCHANGED <<taskQueue, submitVars, workerVars, inputVars, cancelVars, otherTasks>>
  /\ UNCHANGED <<writerVars, bufferVars, redisVars, streamVars, imageVars>>

\* bootstrap 82-83: append_event(job_id, "status", {"status": "queued", ...})
\* and return
BootstrapAppendEvent ==
  /\ bootPc = "event"
  /\ log' = append_event(log, StatusEvent("queued"))
  /\ bootPc' = "returned"
  /\ UNCHANGED <<meta, inputQ, bootCalls, prior>>
  /\ UNCHANGED <<taskQueue, submitVars, workerVars, inputVars, cancelVars, otherTasks>>
  /\ UNCHANGED <<writerVars, bufferVars, redisVars, streamVars, imageVars>>

\* ------------------------------------------------ create_analytical_job
\* The match counts submitted: none, one within the history, one above it.
MatchCounts == {0, 1, Available + 1}

\* app.py 1187-1211 and bootstrap's pipeline: the validated match count, a
\* fresh job id, delete(log, input, meta) + hset(meta).
SubmitBootstrap ==
  /\ submitPc = "idle"
  /\ \E n \in MatchCounts : match_count' = n
  /\ meta' = bootstrap_meta
  /\ log' = <<>>
  /\ inputQ' = <<>>
  /\ submitPc' = "boot_event"
  /\ UNCHANGED sheetVars
  /\ UNCHANGED <<taskQueue, submitResp, workerVars, inputVars, cancelVars, otherTasks>>

\* bootstrap: append_event(job_id, "status", {"status": "queued", ...})
SubmitBootstrapEvent ==
  /\ submitPc = "boot_event"
  /\ log' = append_event(log, StatusEvent("queued"))
  /\ submitPc' = "merge"
  /\ UNCHANGED sheetVars
  /\ UNCHANGED <<meta, inputQ, taskQueue, submitResp, match_count, workerVars,
                 inputVars, cancelVars, otherTasks>>

\* merge_meta(job_id, {"team_name": ...})
SubmitMergeMeta ==
  /\ submitPc = "merge"
  /\ meta' = merge_meta_team(meta)
  /\ submitPc' = "progress"
  /\ UNCHANGED sheetVars
  /\ UNCHANGED <<log, inputQ, taskQueue, submitResp, match_count, workerVars,
                 inputVars, cancelVars, otherTasks>>

\* append_event(job_id, "progress", "Job queued. Waiting for the worker ...")
SubmitProgress ==
  /\ submitPc = "progress"
  /\ log' = append_event(log, ProgressEvent("queued"))
  /\ submitPc' = "enqueue"
  /\ UNCHANGED sheetVars
  /\ UNCHANGED <<meta, inputQ, taskQueue, submitResp, match_count, workerVars,
                 inputVars, cancelVars, otherTasks>>

\* analytical_queue.enqueue(run_analytical_report_job, job_id, ...) succeeds
SubmitEnqueue ==
  /\ submitPc = "enqueue"
  /\ taskQueue' = Append(taskQueue, "J")
  /\ submitPc' = "read"
  /\ UNCHANGED sheetVars
  /\ UNCHANGED <<storeVars, submitResp, match_count, workerVars, inputVars,
                 cancelVars, otherTasks>>

\* The RQ queue after an enqueue call that raised: no task was added.
\* Variant: the enqueue call raises although the task did reach the queue.
enqueue_failed_after_push(q) == Append(q, "J")

enqueue_failed(q) == q

\* analytical_queue.enqueue raises: the except branch is entered
SubmitEnqueueFails ==
  /\ submitPc = "enqueue"
  /\ taskQueue' = enqueue_failed(taskQueue)
  /\ submitPc' = "fail_hset"
  /\ UNCHANGED sheetVars
  /\ UNCHANGED <<storeVars, submitResp, match_count, workerVars, inputVars,
                 cancelVars, otherTasks>>

\* update_status(job_id, "failed", error=str(exc)): the hset
SubmitFailHset ==
  /\ submitPc = "fail_hset"
  /\ meta' = update_status_failed_meta(meta, "enqueue")
  /\ submitPc' = "fail_event"
  /\ UNCHANGED sheetVars
  /\ UNCHANGED <<log, inputQ, taskQueue, submitResp, match_count, workerVars,
                 inputVars, cancelVars, otherTasks>>

\* update_status(job_id, "failed", ...): the status event; then the 500
SubmitFailEvent ==
  /\ submitPc = "fail_event"
  /\ log' = append_event(log, StatusEvent("failed"))
  /\ submitPc' = "done"
  /\ submitResp' = [code |-> 500, status |-> ""]
  /\ UNCHANGED sheetVars
  /\ UNCHANGED <<meta, inputQ, taskQueue, match_count, workerVars, inputVars,
                 cancelVars, otherTasks>>

\* meta = get_meta(job_id); the 202 response carries meta.get("status")
SubmitRead ==
  /\ submitPc = "read"
  /\ submitResp' = [code |-> 202, status |-> meta.status]
  /\ submitPc' = "done"
  /\ UNCHANGED sheetVars
  /\ UNCHANGED <<storeVars, taskQueue, match_count, workerVars, inputVars,
                 cancelVars, otherTasks>>

\* The client learns the job id from the 202 response (and the session it
\* sets): requests naming the job come after it.
JobIdKnown == submitResp.code = 202

\* Another job's submission puts its task on the same RQ queue.
OtherEnqueue ==
  /\ otherTasks < MaxOther
  /\ otherTasks' = otherTasks + 1
  /\ taskQueue' = Append(taskQueue, "O")
  /\ UNCHANGED sheetVars
  /\ UNCHANGED <<storeVars, submitVars, workerVars, inputVars, cancelVars>>


\* ------------------------------------------------------------ the RQ worker
WorkerBusy == workerPc \notin {"none", "exited"}

\* The worker takes this job's task from the queue and calls
\* run_analytical_report_job (RQ delivers a task once).
WorkerPickup ==
  /\ workerPc = "none"
  /\ taskQueue # <<>>
  /\ Head(taskQueue) = "J"
  /\ taskQueue' = Tail(taskQueue)
  /\ workerPc' = "start_hset"
  /\ UNCHANGED sheetVars
  /\ UNCHANGED <<storeVars, submitVars, workerExc, workerResult, count, selected,
                 prompt, nextPromptId, user_message, answer, polls, inputVars,
                 cancelVars, otherTasks>>

\* The worker runs another job's task while it is not running this one.
WorkerOther ==
  /\ ~WorkerBusy
  /\ taskQueue # <<>>
  /\ Head(taskQueue) = "O"
  /\ taskQueue' = Tail(taskQueue)
  /\ UNCHANGED sheetVars
  /\ UNCHANGED <<storeVars, submitVars, workerVars, inputVars, cancelVars, otherTasks>>

\* update_status(job_id, "started", team_tag=..., match_count=...): the hset.
\* The status is written whatever the stored status is.
WorkerStartHset ==
  /\ workerPc = "start_hset"
  /\ meta' = update_status_meta(meta, "started")
  /\ workerPc' = "start_event"
  /\ UNCHANGED sheetVars
  /\ UNCHANGED <<log, inputQ, taskQueue, submitVars, workerExc, workerResult,
                 count, selected, prompt, nextPromptId, user_message, answer,
                 polls, inputVars, cancelVars, otherTasks>>

\* update_status(job_id, "started", ...): the status event; then
\* append_event(job_id, "progress", "Job ... started for team ...")
WorkerStartEvent ==
  /\ workerPc = "start_event"
  /\ log' = AppendAll(log, <<StatusEvent("started"), ProgressEvent("started")>>)
  /\ workerPc' = "resolve"
  /\ UNCHANGED sheetVars
  /\ UNCHANGED <<meta, inputQ, taskQueue, submitVars, workerExc, workerResult,
                 count, selected, prompt, nextPromptId, user_message, answer,
                 polls, inputVars, cancelVars, otherTasks>>

\* Variant: the requested count is used as it is.
PickEntryUnclamped(mc) ==
  IF mc = 0 THEN [events |-> <<>>, pc |-> "count_prompt", count |-> 0]
  ELSE [events |-> <<>>, pc |-> "summary", count |-> mc]

\* _pick_matches 785-797: where the selection starts for a given match_count
\* (0 is None): the events notified, the next position, the count.
PickEntry(mc) ==
  IF mc = 0 THEN [events |-> <<>>, pc |-> "count_prompt", count |-> 0]
  ELSE IF mc > Available
    THEN [events |-> <<ProgressEvent("clamp")>>, pc |-> "summary", count |-> Available]
  ELSE [events |-> <<>>, pc |-> "summary", count |-> mc]

\* generate_analytical_report 1913-1915: _resolve_team succeeds (the history
\* is not empty) and _pick_matches is entered.
WorkerResolve ==
  /\ workerPc = "resolve"
  /\ log' = AppendAll(log, PickEntry(match_count).events)
  /\ workerPc' = PickEntry(match_count).pc
  /\ count' = PickEntry(match_count).count
  /\ UNCHANGED sheetVars
  /\ UNCHANGED <<meta, inputQ, taskQueue, submitVars, workerExc, workerResult,
                 selected, prompt, nextPromptId, user_message, answer, polls,
                 inputVars, cancelVars, otherTasks>>

\* Variant: the count prompt never declares a default.
PromptDefaultConfirmOnly(kind, current) ==
  IF kind = "confirm" THEN "yes" ELSE NoDefault

\* The default a prompt of this kind declares: request_count declares
\* str(current) when current is set, the confirmation declares "yes".
PromptDefault(kind, current) ==
  IF kind = "confirm" THEN "yes"
  ELSE IF current > 0 THEN StrInt(current)
  ELSE NoDefault

\* Variant: the next prompt is issued under the id of the previous one.
SamePromptId(id) == id

\* The id after a prompt id: every prompt gets a fresh one (uuid4().hex).
FreshAfter(id) == id + 1

\* _request_prompt 676-678 and prompt_user 35-40: the events `before` that
\* the caller notifies first, a fresh id, the prompt event; then the wait.
IssuePromptWithin(from, before, kind, limit) ==
  /\ workerPc = from
  /\ nextPromptId <= limit
  /\ prompt' = [id |-> nextPromptId, kind |-> kind,
                default |-> PromptDefault(kind, count)]
  /\ nextPromptId' = FreshAfter(nextPromptId)
  /\ log' = AppendAll(log, before \o
                      <<PromptEvent(nextPromptId, PromptDefault(kind, count))>>)
  /\ workerPc' = "wait"
  /\ UNCHANGED sheetVars
  /\ UNCHANGED <<meta, inputQ, taskQueue, submitVars, workerExc, workerResult,
                 count, selected, user_message, answer, polls, inputVars,
                 cancelVars, otherTasks>>

IssuePrompt(from, before, kind) == IssuePromptWithin(from, before, kind, MaxPrompts)

\* request_count 752-764: the count prompt
WorkerCountPrompt == IssuePrompt("count_prompt", <<>>, "count")

\* _pick_matches 816-818: "Most recent match: ...", "Oldest in selection: ..."
SummaryEvents(n) ==
  IF n > 1 THEN <<ProgressEvent("most_recent"), ProgressEvent("oldest")>>
  ELSE <<ProgressEvent("most_recent")>>

\* _pick_matches 803-846: the first and last selected match are fetched and
\* summarized, then the confirmation prompt is asked.
WorkerSummary == IssuePrompt("summary", SummaryEvents(count), "confirm")

\* A cancel request reached the job while it was not terminal.
cancelRequested == cancelCalls > 0

\* prompt_user 43-45: pop_user_input times out (blpop gives nothing) and the
\* loop continues; nothing else is read.
PollTimeout ==
  /\ workerPc = "wait"
  /\ inputQ = <<>>
  /\ polls' = IF cancelRequested THEN Min(polls + 1, MaxPolls) ELSE polls
  /\ UNCHANGED sheetVars
  /\ UNCHANGED <<storeVars, taskQueue, submitVars, workerPc, workerExc,
                 workerResult, count, selected, prompt, nextPromptId,
                 user_message, answer, inputVars, cancelVars, otherTasks>>

\* str.strip() on the messages followed: a blank message becomes empty.
strip(t) == IF t = " " THEN "" ELSE t

\* Variant: the response is the message as typed, whatever the prompt's
\* default.
ResponseWithoutDefault(entry, spec) == strip(entry.message)

\* prompt_user 47-49: the response taken from a popped entry; the entry's
\* prompt_id is not read.
Response(entry, spec) ==
  IF strip(entry.message) = "" /\ spec.default # NoDefault
    THEN spec.default
    ELSE strip(entry.message)

\* prompt_user 50: `not response and spec.get("default") is None`
NeedsGuidance(resp, spec) == resp = "" /\ spec.default = NoDefault

\* Variant: an unusable empty response makes the caller ask again.
AskAgainAfterGuidance(kind) == IF kind = "count" THEN "count_prompt" ELSE "summary"

\* prompt_user 52: `continue`, the same prompt keeps waiting
AfterGuidance(kind) == "wait"

\* prompt_user 50-52: emit_progress("Please provide a response to
\* continue."); continue
WorkerGuidance ==
  /\ workerPc = "wait"
  /\ inputQ # <<>>
  /\ NeedsGuidance(Response(Head(inputQ), prompt), prompt)
  /\ inputQ' = Tail(inputQ)
  /\ user_message' = Head(inputQ)
  /\ log' = append_event(log, ProgressEvent("guidance"))
  /\ workerPc' = AfterGuidance(prompt.kind)
  /\ UNCHANGED sheetVars
  /\ UNCHANGED <<meta, taskQueue, submitVars, workerExc, workerResult, count,
                 selected, prompt, nextPromptId, answer, polls, inputVars,
                 cancelVars, otherTasks>>

\* Variant: the oldest `n` matches are taken.
slice_from_oldest(s, n) == SubSeq(s, Max(Len(s) - n, 0) + 1, Len(s))

\* _pick_matches 803: context.matches[:count]
Slice(s, n) == SubSeq(s, 1, Min(Max(n, 0), Len(s)))

\* request_count 764-783 after the prompt returned `resp` with `cur` the
\* current count: the events notified, the next position, the count.
AfterCount(resp, cur) ==
  IF resp = "" /\ cur > 0
    THEN [events |-> <<>>, pc |-> "summary", count |-> Max(1, Min(cur, Available))]
  ELSE IF ParseInt(resp) <= 0
    THEN [events |-> <<ProgressEvent("positive_integer")>>, pc |-> "count_prompt",
          count |-> cur]
  ELSE IF ParseInt(resp) > Available
    THEN [events |-> <<ProgressEvent("clamp")>>, pc |-> "summary", count |-> Available]
  ELSE [events |-> <<>>, pc |-> "summary", count |-> ParseInt(resp)]

\* Variant: an answer that is not a no-value is taken as a confirmation.
AfterConfirmUnlessNo(resp, cur) ==
  IF resp \in no_values
    THEN [events |-> <<>>, pc |-> "count_prompt", count |-> cur]
  ELSE [events |-> <<>>, pc |-> "build", count |-> cur]

\* _pick_matches 848-858 after the confirmation returned `resp` with `cur`
\* the current count.
AfterConfirm(resp, cur) ==
  LET r == IF resp = "" THEN "yes" ELSE resp
  IN IF r \in yes_values THEN [events |-> <<>>, pc |-> "build", count |-> cur]
     ELSE IF r \in no_values
       THEN [events |-> <<>>, pc |-> "count_prompt", count |-> cur]
     ELSE [events |-> <<ProgressEvent("yes_or_no")>>, pc |-> "summary", count |-> cur]

\* What the caller of the prompt does with the response.
AfterPrompt(kind, resp, cur) ==
  IF kind = "count" THEN AfterCount(resp, cur) ELSE AfterConfirm(resp, cur)

\* prompt_user 43-59: pop_user_input returns an entry that gives a usable
\* response; the prompt_resolved event; the response is returned and the
\* caller acts on it up to its next prompt or the build.
PopInput ==
  /\ workerPc = "wait"
  /\ inputQ # <<>>
  /\ ~NeedsGuidance(Response(Head(inputQ), prompt), prompt)
  /\ LET resp == Response(Head(inputQ), prompt)
         nxt == AfterPrompt(prompt.kind, resp, count)
     IN /\ answer' = resp
        /\ log' = AppendAll(log, <<PromptResolvedEvent(prompt.id, resp)>> \o nxt.events)
        /\ workerPc' = nxt.pc
        /\ count' = nxt.count
        /\ selected' = IF nxt.pc = "build" THEN Slice(Matches, nxt.count)
                       ELSE selected
  /\ inputQ' = Tail(inputQ)
  /\ user_message' = Head(inputQ)
  /\ prompt' = NoPrompt
  /\ UNCHANGED sheetVars
  /\ UNCHANGED <<meta, taskQueue, submitVars, workerExc, workerResult,
                 nextPromptId, polls, inputVars, cancelVars, otherTasks>>

\* generate_analytical_report 1923-1971: the spreadsheet is created and
\* filled (from "Preparing match data..." on) and the payload is built.
WorkerBuild ==
  /\ workerPc = "build"
  /\ log' = append_event(log, ProgressEvent("building"))
  /\ workerPc' = "share"
  /\ UNCHANGED sheetVars
  /\ UNCHANGED <<meta, inputQ, taskQueue, submitVars, workerExc, workerResult,
                 count, selected, prompt, nextPromptId, user_message, answer,
                 polls, inputVars, cancelVars, otherTasks>>

\* generate_analytical_report 1973-1975: _share_spreadsheet returns
WorkerShare ==
  /\ workerPc = "share"
  /\ workerPc' = "finalize"
  /\ UNCHANGED sheetVars
  /\ UNCHANGED <<storeVars, taskQueue, submitVars, workerExc, workerResult, count,
                 selected, prompt, nextPromptId, user_message, answer, polls,
                 inputVars, cancelVars, otherTasks>>

\* str(exc) of the AnalyticalReportError _share_spreadsheet's writer raises
ShareFailure == "Sharing spreadsheet failed"

\* generate_analytical_report 1973-1975: _share_spreadsheet raises (no try
\* around it); run_analytical_report_job 80-82 appends the error event.
WorkerShareFails ==
  /\ workerPc = "share"
  /\ workerExc' = [kind |-> "domain", message |-> ShareFailure]
  /\ log' = append_event(log, ErrorEvent(ShareFailure))
  /\ workerPc' = "err_hset"
  /\ UNCHANGED sheetVars
  /\ UNCHANGED <<meta, inputQ, taskQueue, submitVars, workerResult, count,
                 selected, prompt, nextPromptId, user_message, answer, polls,
                 inputVars, cancelVars, otherTasks>>

\* generate_analytical_report 1977-1995: the progress events of the three
\* guarded sub-steps; a failed one is notified as "Unable to ...".
FinalizeEvents(view_ok, gid_ok, publish_ok) ==
  <<ProgressEvent("ensuring_viewable")>>
  \o (IF view_ok THEN <<>> ELSE <<ProgressEvent("unable_public_view")>>)
  \o (IF gid_ok THEN <<>> ELSE <<ProgressEvent("unable_gid")>>)
  \o <<ProgressEvent("publishing")>>
  \o (IF publish_ok THEN <<>> ELSE <<ProgressEvent("unable_publish")>>)
  \o <<ProgressEvent("ready"), ProgressEvent("created")>>

\* Variant: without a published link no URL is produced.
NoFallbackUrls(publish_ok) == IF publish_ok THEN "published_urls" ELSE ""

\* generate_analytical_report 1997-2010: the URLs of the result come from
\* the published link, or are the htmlview/export fallbacks.
ReportUrls(publish_ok) == IF publish_ok THEN "published_urls" ELSE "fallback_urls"

\* merge_meta(job_id, {"result": result, "completed_at": ...})
merge_meta_report(m, urls) == [merge_meta_result(m) EXCEPT !.result = urls]

\* generate_analytical_report 1977-2024: public-view permission, gid and
\* publish, each in its own try; the result is returned; then
\* run_analytical_report_job 72: merge_meta of the result.
WorkerFinalize ==
  /\ workerPc = "finalize"
  /\ \E view_ok, gid_ok, publish_ok \in BOOLEAN :
       /\ log' = AppendAll(log, FinalizeEvents(view_ok, gid_ok, publish_ok))
       /\ meta' = merge_meta_report(meta, ReportUrls(publish_ok))
  /\ workerPc' = "completed_event"
  /\ UNCHANGED sheetVars
  /\ UNCHANGED <<inputQ, taskQueue, submitVars, workerExc, workerResult, count,
                 selected, prompt, nextPromptId, user_message, answer, polls,
                 inputVars, cancelVars, otherTasks>>

\* append_event(job_id, "completed", ...)
WorkerCompleted ==
  /\ workerPc = "completed_event"
  /\ log' = append_event(log, CompletedEvent)
  /\ workerPc' = "fin_hset"
  /\ UNCHANGED sheetVars
  /\ UNCHANGED <<meta, inputQ, taskQueue, submitVars, workerExc, workerResult,
                 count, selected, prompt, nextPromptId, user_message, answer,
                 polls, inputVars, cancelVars, otherTasks>>

\* update_status(job_id, "finished"): the hset
WorkerFinishHset ==
  /\ workerPc = "fin_hset"
  /\ meta' = update_status_meta(meta, "finished")
  /\ workerPc' = "fin_event"
  /\ UNCHANGED sheetVars
  /\ UNCHANGED <<log, inputQ, taskQueue, submitVars, workerExc, workerResult,
                 count, selected, prompt, nextPromptId, user_message, answer,
                 polls, inputVars, cancelVars, otherTasks>>

\* update_status(job_id, "finished"): the status event; return result
WorkerFinishEvent ==
  /\ workerPc = "fin_event"
  /\ log' = append_event(log, StatusEvent("finished"))
  /\ workerPc' = "exited"
  /\ workerResult' = "returned"
  /\ UNCHANGED sheetVars
  /\ UNCHANGED <<meta, inputQ, taskQueue, submitVars, workerExc, count, selected,
                 prompt, nextPromptId, user_message, answer, polls, inputVars,
                 cancelVars, otherTasks>>

\* Where generate_analytical_report can raise: AnalyticalReportError from
\* _resolve_team and from the build (_authorize, the API writer, sharing);
\* any other exception from the network calls, the build, and inside
\* prompt_user's wait (the store, or RQ's JobTimeoutException after the
\* queue's default_timeout).
RaisePlaces(kind) ==
  IF kind = "domain" THEN {"resolve", "build"}
  ELSE {"resolve", "summary", "build", "wait"}

\* str(exc) / f"Unexpected error: {exc}"
ExcMessage(kind) == IF kind = "domain" THEN "report_error" ELSE "Unexpected error"

\* generate_analytical_report raises; the matching except clause appends the
\* error event.
WorkerRaise ==
  \E kind \in {"domain", "unexpected"} :
    /\ workerPc \in RaisePlaces(kind)
    /\ workerExc' = [kind |-> kind, message |-> ExcMessage(kind)]
    /\ log' = append_event(log, ErrorEvent(ExcMessage(kind)))
    /\ workerPc' = "err_hset"
    /\ UNCHANGED sheetVars
    /\ UNCHANGED <<meta, inputQ, taskQueue, submitVars, workerResult, count,
                   selected, prompt, nextPromptId, user_message, answer, polls,
                   inputVars, cancelVars, otherTasks>>

\* update_status(job_id, "failed", error=message): the hset
WorkerFailHset ==
  /\ workerPc = "err_hset"
  /\ meta' = update_status_failed_meta(meta, workerExc.message)
  /\ workerPc' = "err_status"
  /\ UNCHANGED sheetVars
  /\ UNCHANGED <<log, inputQ, taskQueue, submitVars, workerExc, workerResult,
                 count, selected, prompt, nextPromptId, user_message, answer,
                 polls, inputVars, cancelVars, otherTasks>>

\* How run_analytical_report_job ends after recording a failure: both except
\* clauses end with `raise`.
\* Variant: the except clause ends without `raise`.
AfterFailureSwallowed == "returned"

AfterFailure == "raised"

\* update_status(job_id, "failed", ...): the status event; then `raise`
WorkerFailEvent ==
  /\ workerPc = "err_status"
  /\ log' = append_event(log, StatusEvent("failed"))
  /\ workerPc' = "exited"
  /\ workerResult' = AfterFailure
  /\ UNCHANGED sheetVars
  /\ UNCHANGED <<meta, inputQ, taskQueue, submitVars, workerExc, count, selected,
                 prompt, nextPromptId, user_message, answer, polls, inputVars,
                 cancelVars, otherTasks>>

\* ---------------------------------------------------- analytical_job_input
\* push_user_input 160-177: the user_message event, then the rpush of the
\* queue payload (message, author, prompt_id).
\* Variant: the payload is pushed to the head of the queue.
push_user_input_front(m, p) ==
  /\ log' = append_event(log, UserMessageEvent(m, p))
  /\ inputQ' = <<QueueEntry(m, p)>> \o inputQ

push_user_input(m, p) ==
  /\ log' = append_event(log, UserMessageEvent(m, p))
  /\ inputQ' = Append(inputQ, QueueEntry(m, p))

\* analytical_job_input 1350-1366: the job exists, the stripped message is
\* not empty (else 400), the declared prompt id is optional.
InputRequest ==
  /\ JobIdKnown
  /\ meta.exists
  /\ inputsPushed < MaxInputs
  /\ \E m \in Texts \ {""}, p \in DeclaredIds : push_user_input(m, p)
  /\ inputsPushed' = inputsPushed + 1
  /\ UNCHANGED sheetVars
  /\ UNCHANGED <<meta, taskQueue, submitVars, workerVars, cancelVars, otherTasks>>

\* push_user_input called with an empty message by a caller of the store
\* other than the web handler (the store itself accepts any message);
\* prompt_id keeps its default None.
StorePushEmpty ==
  /\ JobIdKnown
  /\ meta.exists
  /\ inputsPushed < MaxInputs
  /\ push_user_input("", 0)
  /\ inputsPushed' = inputsPushed + 1
  /\ UNCHANGED sheetVars
  /\ UNCHANGED <<meta, taskQueue, submitVars, workerVars, cancelVars, otherTasks>>

\* push_user_input called for the prompt that is open, with any message,
\* an empty or blank one included (the store accepts it; the web handler
\* would not); prompt_id keeps its default None.
AnswerPrompt ==
  /\ workerPc = "wait"
  /\ inputQ = <<>>
  /\ inputsPushed < MaxAnswers
  /\ \E m \in Texts \cup {" "} : push_user_input(m, 0)
  /\ inputsPushed' = inputsPushed + 1
  /\ UNCHANGED sheetVars
  /\ UNCHANGED <<meta, taskQueue, submitVars, workerVars, cancelVars, otherTasks>>

\* Any answer to the open prompt of the match selection, a number above
\* the history included.
AnswerSelection ==
  /\ workerPc = "wait"
  /\ inputQ = <<>>
  /\ inputsPushed < MaxSelectionAnswers
  /\ \E m \in Texts \cup {" ", "4"} : push_user_input(m, 0)
  /\ inputsPushed' = inputsPushed + 1
  /\ UNCHANGED sheetVars
  /\ UNCHANGED <<meta, taskQueue, submitVars, workerVars, cancelVars, otherTasks>>

\* The prompts of a selection the user changes: request_count 752-764 and
\* _pick_matches 803-846 again.
SelectionCountPrompt ==
  IssuePromptWithin("count_prompt", <<>>, "count", MaxSelectionPrompts)

SelectionSummary ==
  IssuePromptWithin("summary", SummaryEvents(count), "confirm", MaxSelectionPrompts)

\* request_count 748-750 without a prompt handler (0 is None)
request_count_unattended(current) ==
  LET candidate == IF current > 0 THEN current ELSE Available
  IN Max(1, Min(candidate, Available))

\* _pick_matches 785-796 without a prompt handler: the first count
unattended_count(mc) ==
  IF mc = 0 THEN request_count_unattended(0)
  ELSE IF mc > Available THEN Available
  ELSE mc

\* _pick_matches 743-821 called with prompt_handler=None (the default of
\* generate_analytical_report): no prompt is issued, the selection returns
\* after the summary.
PickUnattended ==
  /\ workerPc = "resolve"
  /\ count' = unattended_count(match_count)
  /\ selected' = Slice(Matches, unattended_count(match_count))
  /\ log' = AppendAll(log, PickEntry(match_count).events
                            \o SummaryEvents(unattended_count(match_count)))
  /\ workerPc' = "build"
  /\ UNCHANGED sheetVars
  /\ UNCHANGED <<meta, inputQ, taskQueue, submitVars, workerExc, workerResult,
                 prompt, nextPromptId, user_message, answer, polls, inputVars,
                 cancelVars, otherTasks>>

\* analytical_job_input 1350-1366 requested at any time after the job id is
\* known, whether a prompt is open or not, and repeatedly.
InputRequestAnyTime ==
  /\ JobIdKnown
  /\ meta.exists
  /\ inputsPushed < MaxQueued
  /\ \E m \in Texts \ {""}, p \in DeclaredIds : push_user_input(m, p)
  /\ inputsPushed' = inputsPushed + 1
  /\ UNCHANGED sheetVars
  /\ UNCHANGED <<meta, taskQueue, submitVars, workerVars, cancelVars, otherTasks>>

\* --------------------------------------------------- cancel_analytical_job
\* cancel_analytical_job 1387-1388: the job already completed
\* Variant: only a finished job is treated as already over.
CancelIsNoopFinishedOnly(status) == status = "finished"

CancelIsNoop(status) == status \in TerminalStatuses

\* cancel_analytical_job 1383-1389: the job exists (else 404, nothing
\* changes); "Job already completed.", 200 with the status read
CancelTerminal ==
  /\ JobIdKnown
  /\ cancelPc = "idle"
  /\ meta.exists
  /\ CancelIsNoop(meta.status)
  /\ cancelResp' = [code |-> 200, status |-> meta.status]
  /\ UNCHANGED sheetVars
  /\ UNCHANGED <<storeVars, taskQueue, submitVars, workerVars, inputVars, cancelPc,
                 cancelCalls, otherTasks>>

\* cancel_analytical_job 1391-1392: analytical_job_store.request_cancel(...).
\* AnalyticalJobStore defines no request_cancel, so the call raises
\* AttributeError: the request ends with a 500 and nothing was written.
CancelRaises ==
  /\ JobIdKnown
  /\ cancelPc = "idle"
  /\ cancelCalls < MaxCancels
  /\ meta.exists
  /\ ~CancelIsNoop(meta.status)
  /\ cancelResp' = [code |-> 500, status |-> ""]
  /\ cancelCalls' = cancelCalls + 1
  /\ UNCHANGED sheetVars
  /\ UNCHANGED <<storeVars, taskQueue, submitVars, workerVars, inputVars, cancelPc,
                 otherTasks>>

\* request_cancel as the design describes it ("marks status cancelling"):
\* the meta hash after update_status(job_id, "cancelling", cancelled_by=...).
request_cancel_meta(m) ==
  [m EXCEPT !.exists = TRUE, !.status = "cancelling", !.cancelled_by = "user"]

\* cancel_analytical_job 1383-1391 with a store that has request_cancel: the
\* status read is not terminal and the handler goes on.
CancelBegin ==
  /\ JobIdKnown
  /\ cancelPc = "idle"
  /\ cancelCalls < MaxCancels
  /\ meta.exists
  /\ ~CancelIsNoop(meta.status)
  /\ cancelPc' = "request"
  /\ cancelCalls' = cancelCalls + 1
  /\ UNCHANGED sheetVars
  /\ UNCHANGED <<storeVars, taskQueue, submitVars, workerVars, inputVars, cancelResp,
                 otherTasks>>

\* cancel_analytical_job 1392 with a store that has request_cancel
CancelRequest ==
  /\ cancelPc = "request"
  /\ meta' = request_cancel_meta(meta)
  /\ log' = append_event(log, StatusEvent("cancelling"))
  /\ cancelPc' = "rq_cancel"
  /\ UNCHANGED sheetVars
  /\ UNCHANGED <<inputQ, taskQueue, submitVars, workerVars, inputVars, cancelResp,
                 cancelCalls, otherTasks>>

\* rq_job.cancel() on a queue: the job's task leaves the queue if it is
\* still there (a task already picked up keeps running).
rq_cancel(q) == SelectSeq(q, LAMBDA t : t # "J")

\* cancel_analytical_job 1394-1399: Job.fetch(...).cancel(); NoSuchJobError
\* is passed over
CancelRqJob ==
  /\ cancelPc = "rq_cancel"
  /\ taskQueue' = rq_cancel(taskQueue)
  /\ cancelPc' = "empty"
  /\ UNCHANGED sheetVars
  /\ UNCHANGED <<storeVars, submitVars, workerVars, inputVars, cancelResp,
                 cancelCalls, otherTasks>>

\* cancel_analytical_job 1403-1413: analytical_queue.empty(), then the 202
\* "Cancellation requested." with status cancelling
CancelEmptyQueue ==
  /\ cancelPc = "empty"
  /\ taskQueue' = <<>>
  /\ cancelResp' = [code |-> 202, status |-> "cancelling"]
  /\ cancelPc' = "idle"
  /\ UNCHANGED sheetVars
  /\ UNCHANGED <<storeVars, submitVars, workerVars, inputVars, cancelCalls,
                 otherTasks>>

\* ------------------------------------------------- _execute_with_retry
\* time.monotonic() when the process makes its first write
StartTimes == {0, 25}

\* Time the caller spends between two calls of the writer
Gaps == {0, 12}

\* Time one operation() invocation takes
OperationTimes == {0, 4}

\* The description= of the calls (format_cell_range ..., _flush_option)
Descriptions == {"Formatting A1 on Sheet1", "Batch updating 1 range(s) on Sheet1"}

\* _safe_int_env: any value >= 0 can be configured; the caller installs
\* its sleep function before the first write (generate_analytical_report
\* 1913).
InitWriter ==
  /\ InitJob
  /\ BufferInit
  /\ RedisInit(log_limit)
  /\ StreamInit
  /\ BootIdle
  /\ ImageIdle
  /\ sleep_fn \in SleepFns
  /\ max_retries \in 0..MaxRetries
  /\ now \in StartTimes
  /\ WriterIdle

\* A caller enters _execute_with_retry 208-209
WriterCall ==
  /\ writerPc \in {"idle", "ended"}
  /\ calls < MaxCalls
  /\ \E d \in Descriptions, g \in Gaps :
       /\ now' = now + g
       /\ writerResult' = [kind |-> "running", description |-> d, cause |-> NoError]
  /\ attempt' = 0
  /\ attempts' = 0
  /\ rejections' = 0
  /\ lastError' = NoError
  /\ requested' = <<>>
  /\ slept' = <<>>
  /\ calls' = calls + 1
  /\ writerPc' = "throttle"
  /\ UNCHANGED <<sleep_fn, max_retries, last_write_ts, prevStart, curStart>>
  /\ UNCHANGED <<jobVars, bufferVars, redisVars, streamVars, extraVars>>

\* _throttle_writes 176-185
WriterThrottle ==
  /\ writerPc = "throttle"
  /\ LET wait_time == WRITE_THROTTLE_SECONDS - (now - last_write_ts)
         t == IF WRITE_THROTTLE_SECONDS <= 0 THEN now
              ELSE now + sleep(sleep_fn, wait_time)
     IN /\ now' = t
        /\ last_write_ts' = IF WRITE_THROTTLE_SECONDS <= 0 THEN last_write_ts ELSE t
  /\ writerPc' = "operation"
  /\ UNCHANGED <<sleep_fn, max_retries, attempt, attempts, rejections, lastError,
                 writerResult, prevStart, curStart, requested, slept, calls>>
  /\ UNCHANGED <<jobVars, bufferVars, redisVars, streamVars, extraVars>>

\* Variant: one retry more than the limit.
RetryOnceMore(error, att, max) == extract_api_status(error) = 429 /\ att <= max

\* Variant: every APIError is retried, whatever its status.
RetryAnyApiError(error, att, max) == att < max

\* _execute_with_retry 216: `status_code == 429 and attempt < _WRITE_MAX_RETRIES`
ShouldRetry(error, att, max) == extract_api_status(error) = 429 /\ att < max

\* _execute_with_retry 214-221: what a raised error becomes. Only APIError
\* is caught; an error of another class leaves the function as it is.
Raised(error, description) ==
  IF error.class = "APIError"
    THEN [kind |-> "AnalyticalReportError", description |-> description,
          cause |-> error]
    ELSE [kind |-> error.class, description |-> "", cause |-> error]

\* _execute_with_retry 212-221: one operation() invocation and what follows
WriterOperation ==
  /\ writerPc = "operation"
  /\ \E e \in Outcomes, d \in OperationTimes :
       /\ now' = now + d
       /\ lastError' = e
       /\ rejections' = IF e.class = "APIError" /\ extract_api_status(e) = 429
                          THEN rejections + 1 ELSE rejections
       /\ IF e = NoError
            THEN /\ writerResult' = [writerResult EXCEPT !.kind = "returned"]
                 /\ writerPc' = "ended"
          ELSE IF e.class = "APIError" /\ ShouldRetry(e, attempt, max_retries)
            THEN /\ writerResult' = writerResult
                 /\ writerPc' = "backoff"
          ELSE /\ writerResult' = Raised(e, writerResult.description)
               /\ writerPc' = "ended"
  /\ prevStart' = curStart
  /\ curStart' = now
  /\ attempts' = attempts + 1
  /\ UNCHANGED <<sleep_fn, max_retries, last_write_ts, attempt, requested, slept,
                 calls>>
  /\ UNCHANGED <<jobVars, bufferVars, redisVars, streamVars, extraVars>>

\* _execute_with_retry 217: min(60.0, _WRITE_BACKOFF_SECONDS * (2 ** attempt))
Backoff(att) == Min(BACKOFF_CEILING, WRITE_BACKOFF_SECONDS * (2 ^ att))

\* _execute_with_retry 217-220: backoff, _sleep(backoff), attempt += 1
WriterBackoff ==
  /\ writerPc = "backoff"
  /\ requested' = Append(requested, Backoff(attempt))
  /\ slept' = Append(slept, sleep(sleep_fn, Backoff(attempt)))
  /\ now' = now + sleep(sleep_fn, Backoff(attempt))
  /\ attempt' = attempt + 1
  /\ writerPc' = "throttle"
  /\ UNCHANGED <<sleep_fn, max_retries, last_write_ts, attempts, rejections,
                 lastError, writerResult, prevStart, curStart, calls>>
  /\ UNCHANGED <<jobVars, bufferVars, redisVars, streamVars, extraVars>>

\* ------------------------------------------------------------ _add_image
\* What googleapiclient raises: an HttpError with its status_code and the
\* status of its resp (0 is None).
HttpError(sc, rs) == [class |-> "HttpError", status_code |-> sc, resp_status |-> rs]

NoHttpError == [class |-> "none", status_code |-> 0, resp_status |-> 0]

OtherHttpError == [class |-> "ConnectionError", status_code |-> 0, resp_status |-> 0]

\* _extract_http_status 480-495 (0 is None)
extract_http_status(error) ==
  IF error.status_code # 0 THEN error.status_code
  ELSE IF error.resp_status # 0 THEN error.resp_status
  ELSE 0

\* What the Sheets API does with one write request.
Answers == {"ok", "rate_limited", "rejected", "unreachable"}

\* The same answer as gspread reports it to operation() ...
AsApiError(a) ==
  CASE a = "ok" -> {NoError}
    [] a = "rate_limited" -> {ApiError(429, 0), ApiError(0, 429)}
    [] a = "rejected" -> {ApiError(500, 0), ApiError(0, 0)}
    [] OTHER -> {OtherError}

\* ... and as googleapiclient reports it to batchUpdate(...).execute()
AsHttpError(a) ==
  CASE a = "ok" -> {NoHttpError}
    [] a = "rate_limited" -> {HttpError(429, 0), HttpError(0, 429)}
    [] a = "rejected" -> {HttpError(500, 0), HttpError(0, 0)}
    [] OTHER -> {OtherHttpError}

\* Variant: the image loop allows one retry more than the writer.
ImageRetryOnceMore(error, att, max) == extract_http_status(error) = 429 /\ att <= max

\* _add_image 470: `status == 429 and attempt < _WRITE_MAX_RETRIES`
ImageShouldRetry(error, att, max) == extract_http_status(error) = 429 /\ att < max

\* _add_image 471: min(60.0, _WRITE_BACKOFF_SECONDS * (2 ** attempt))
ImageBackoff(att) == Min(BACKOFF_CEILING, WRITE_BACKOFF_SECONDS * (2 ^ att))

\* _add_image 468-477: only HttpError is caught
ImageRaised(error) ==
  IF error.class = "HttpError" THEN "AnalyticalReportError" ELSE error.class

\* One pass of the while loop of _execute_with_retry (210-221): throttle,
\* operation(), then return, back off or raise.
ExecuteIteration(run, error, max) ==
  LET tried == [run EXCEPT !.throttles = @ + 1, !.attempts = @ + 1]
  IN IF error = NoError
       THEN [tried EXCEPT !.pc = "ended", !.result = "returned"]
     ELSE IF error.class = "APIError" /\ ShouldRetry(error, run.attempt, max)
       THEN [tried EXCEPT !.backoffs = Append(@, Backoff(run.attempt)),
                          !.attempt = @ + 1]
     ELSE [tried EXCEPT !.pc = "ended", !.result = Raised(error, "d").kind]

\* One pass of the while loop of _add_image (460-477)
AddImageIteration(run, error, max) ==
  LET tried == [run EXCEPT !.throttles = @ + 1, !.attempts = @ + 1]
  IN IF error = NoHttpError
       THEN [tried EXCEPT !.pc = "ended", !.result = "returned"]
     ELSE IF error.class = "HttpError" /\ ImageShouldRetry(error, run.attempt, max)
       THEN [tried EXCEPT !.backoffs = Append(@, ImageBackoff(run.attempt)),
                          !.attempt = @ + 1]
     ELSE [tried EXCEPT !.pc = "ended", !.result = ImageRaised(error)]

\* _execute_with_retry 209 and _add_image 459: attempt = 0
RetryCall ==
  /\ execRun.pc # "running"
  /\ imageRun.pc # "running"
  /\ retryRuns < MaxCalls
  /\ execRun' = [NoRun EXCEPT !.pc = "running"]
  /\ imageRun' = [NoRun EXCEPT !.pc = "running"]
  /\ retryRuns' = retryRuns + 1
  /\ UNCHANGED <<jobVars, writerVars, bufferVars, redisVars, streamVars, bootVars>>

\* The next request of each loop that is still running gets the same answer
\* from the API.
RetryAttempt ==
  /\ execRun.pc = "running" \/ imageRun.pc = "running"
  /\ \E a \in Answers :
       /\ \E e \in AsApiError(a) :
            execRun' = IF execRun.pc = "running"
                         THEN ExecuteIteration(execRun, e, max_retries)
                         ELSE execRun
       /\ \E h \in AsHttpError(a) :
            imageRun' = IF imageRun.pc = "running"
                          THEN AddImageIteration(imageRun, h, max_retries)
                          ELSE imageRun
  /\ UNCHANGED <<jobVars, writerVars, bufferVars, redisVars, streamVars, bootVars,
                 retryRuns>>

\* ---------------------------------------------- WorksheetUpdateBuffer
\* _flush_option 108: the payload built from the buffer, in buffer order
payload(buffer) == [i \in 1..Len(buffer) |-> buffer[i]]

\* Variant: the buffer is left as it is after the batch was sent.
NotCleared(buffer) == buffer

\* _flush_option 114: buffer.clear()
Cleared(buffer) == <<>>

\* _flush_option 103-114 on mode `key`; `ok` is whether the batch_update
\* call made through _execute_with_retry returns (otherwise it raises and
\* line 114 is not reached).
flush_option(bufs, snt, key, ok) ==
  IF bufs[key] = <<>>
    THEN [buffers |-> bufs, sent |-> snt, raised |-> FALSE]
  ELSE IF ok
    THEN [buffers |-> [bufs EXCEPT ![key] = Cleared(bufs[key])],
          sent |-> [snt EXCEPT ![key] = Append(snt[key], payload(bufs[key]))],
          raised |-> FALSE]
  ELSE [buffers |-> bufs, sent |-> snt, raised |-> TRUE]

\* Variant: the buffer is flushed only when it holds more than the maximum.
max_exceeded(buffer, max) == Len(buffer) > max

\* update 96: len(target_buffer) >= self._max
max_reached(buffer, max) == Len(buffer) >= max

\* update 68-97: the entry is appended to the buffer of its mode, which is
\* flushed when it reaches max_batch_size.
BufferUpdate ==
  /\ bufferPc \in {"open", "flushed"}
  /\ nextEntry <= MaxUpdates
  /\ \E key \in Modes, ok \in BOOLEAN :
       LET appended == [buffers EXCEPT ![key] = Append(buffers[key], nextEntry)]
           f == IF max_reached(appended[key], MaxBatch)
                  THEN flush_option(appended, sent, key, ok)
                  ELSE [buffers |-> appended, sent |-> sent, raised |-> FALSE]
       IN /\ updates' = [updates EXCEPT ![key] = Append(updates[key], nextEntry)]
          /\ buffers' = f.buffers
          /\ sent' = f.sent
          /\ bufferPc' = IF f.raised THEN "failed" ELSE "open"
  /\ nextEntry' = nextEntry + 1
  /\ UNCHANGED <<jobVars, writerVars, redisVars, streamVars, extraVars>>

\* flush 100: self._flush_option("RAW")
BufferFlushRaw ==
  /\ bufferPc \in {"open", "flushed"}
  /\ \E ok \in BOOLEAN :
       LET f == flush_option(buffers, sent, "RAW", ok)
       IN /\ buffers' = f.buffers
          /\ sent' = f.sent
          /\ bufferPc' = IF f.raised THEN "failed" ELSE "flush_user"
  /\ UNCHANGED <<updates, nextEntry>>
  /\ UNCHANGED <<jobVars, writerVars, redisVars, streamVars, extraVars>>

\* flush 101: self._flush_option("USER_ENTERED")
BufferFlushUser ==
  /\ bufferPc = "flush_user"
  /\ \E ok \in BOOLEAN :
       LET f == flush_option(buffers, sent, "USER_ENTERED", ok)
       IN /\ buffers' = f.buffers
          /\ sent' = f.sent
          /\ bufferPc' = IF f.raised THEN "failed" ELSE "flushed"
  /\ UNCHANGED <<updates, nextEntry>>
  /\ UNCHANGED <<jobVars, writerVars, redisVars, streamVars, extraVars>>

\* -------------------------------------------- the store's calls, step by step
\* A caller of the store does something else; nothing of the job changes.
StoreFrame == UNCHANGED <<jobVars, writerVars, bufferVars, extraVars>>

\* The wall clock advances.
Tick ==
  /\ clock < MaxClock
  /\ clock' = clock + 1
  /\ UNCHANGED <<store_log_limit, callers, raw_log, published, appends,
                 input_key, pushed, popped, appendCalls, streamVars>>
  /\ StoreFrame

\* Variant: nothing is published.
publish_dropped(subscribed, buffer, raw) == buffer

\* PUBLISH on keys.channel: a subscribed connection receives the message.
publish(subscribed, buffer, raw) ==
  IF subscribed THEN Append(buffer, raw) ELSE buffer

\* pubsub.subscribe(keys.channel) was issued and the connection is open.
Subscribed == streamPc \in {"replay", "loop"}

\* The job's terminal status event was appended.
JobEnded ==
  \E i \in 1..Len(appends) : json_loads(appends[i]).payload.status \in TerminalStatuses

\* append_event 108-115: the message is built and serialized; its
\* timestamp is the caller's clock reading at this point.  Callers put the
\* number of the call in the payload's message.
AppendEventBuild(p, event_type, origin, body, args) ==
  /\ callers[p].pc = "idle"
  /\ appendCalls < MaxAppends
  /\ appendCalls' = appendCalls + 1
  /\ callers' = [callers EXCEPT ![p] =
                   [pc |-> "execute",
                    message |-> Message(event_type, origin, body, clock),
                    args |-> args]]
  /\ UNCHANGED <<clock, store_log_limit, raw_log, published, appends,
                 input_key, pushed, popped, streamVars>>
  /\ StoreFrame

\* The Worker calls append_event: emit_progress, or the status event of
\* update_status(job_id, "finished"), after which it appends nothing.
WorkerAppendBuild ==
  /\ ~JobEnded
  /\ \/ AppendEventBuild("worker", "progress", "system",
                         progress_payload(StrInt(appendCalls + 1)), NoArgs)
     \/ AppendEventBuild("worker", "status", "system",
                         status_payload("finished"), NoArgs)

\* push_user_input 168-173: a request thread builds the user_message event
WebPushBuild ==
  \E p \in Webs, r \in Requests :
    AppendEventBuild(p, "user_message", "user",
                     user_payload(StrInt(appendCalls + 1), r[1], r[2]),
                     queue_payload(StrInt(appendCalls + 1), r[1], r[2]))

\* append_event 116-120: the pipeline (MULTI/EXEC) of rpush, ltrim, publish
AppendEventExecute ==
  \E p \in Procs :
    /\ callers[p].pc = "execute"
    /\ LET raw == json_dumps(callers[p].message)
       IN /\ raw_log' = ltrim(Append(raw_log, raw), store_log_limit)
          /\ appends' = Append(appends, raw)
          /\ published' = Append(published, raw)
          /\ pubsub' = publish(Subscribed, pubsub, raw)
    /\ callers' = [callers EXCEPT ![p] =
                     IF callers[p].args = NoArgs THEN NoCall
                     ELSE [callers[p] EXCEPT !.pc = "rpush"]]
    /\ UNCHANGED <<clock, store_log_limit, input_key, pushed, popped,
                   appendCalls, streamPc, delivered, keepalives, subscribedAt,
                   replayed>>
    /\ StoreFrame

\* push_user_input 174-177: the rpush of the queue payload
PushUserInputRpush ==
  \E p \in Webs :
    /\ callers[p].pc = "rpush"
    /\ input_key' = Append(input_key, json_dumps(callers[p].args))
    /\ pushed' = Append(pushed, callers[p].args)
    /\ callers' = [callers EXCEPT ![p] = NoCall]
    /\ UNCHANGED <<clock, store_log_limit, raw_log, published, appends,
                   popped, appendCalls, streamVars>>
    /\ StoreFrame

\* pop_user_input 179-190: blpop gives the head of the queue, which is
\* decoded; on an empty queue it times out and nothing changes.
PopUserInput ==
  /\ callers["worker"].pc = "idle"
  /\ input_key # <<>>
  /\ popped' = Append(popped, json_loads(Head(input_key)))
  /\ input_key' = Tail(input_key)
  /\ UNCHANGED <<clock, store_log_limit, callers, raw_log, published,
                 appends, pushed, appendCalls, streamVars>>
  /\ StoreFrame

\* ---------------------------------------------------- analytical_job_stream
\* analytical_job_stream 1287-1293: the job exists (the handler is asked
\* for a bootstrapped job); pubsub.subscribe(keys.channel)
StreamSubscribe ==
  /\ streamPc = "none"
  /\ streamPc' = "replay"
  /\ subscribedAt' = Len(appends)
  /\ UNCHANGED <<pubsub, delivered, keepalives, replayed, redisVars>>
  /\ StoreFrame

\* generate_stream 1297-1300: log_lines reads the whole list with one lrange
\* and every entry is decoded and yielded
StreamReplay ==
  /\ streamPc = "replay"
  /\ replayed' = raw_log
  /\ delivered' = delivered \o [i \in 1..Len(raw_log) |-> json_loads(raw_log[i])]
  /\ streamPc' = "loop"
  /\ UNCHANGED <<pubsub, keepalives, subscribedAt, redisVars>>
  /\ StoreFrame

\* generate_stream 1302-1319: get_message returns a published message,
\* which is decoded and yielded
StreamMessage ==
  /\ streamPc = "loop"
  /\ pubsub # <<>>
  /\ delivered' = Append(delivered, json_loads(Head(pubsub)))
  /\ pubsub' = Tail(pubsub)
  /\ UNCHANGED <<streamPc, keepalives, subscribedAt, replayed, redisVars>>
  /\ StoreFrame

\* generate_stream 1302, 1320-1321: get_message times out after 15 s, a
\* keep-alive comment is yielded and the loop goes on, whatever the job's
\* status is
StreamKeepAlive ==
  /\ streamPc = "loop"
  /\ pubsub = <<>>
  /\ keepalives' = 1 - keepalives
  /\ UNCHANGED <<streamPc, pubsub, delivered, subscribedAt, replayed, redisVars>>
  /\ StoreFrame

\* generate_stream 1322-1329: the client went away (GeneratorExit); the
\* subscription is dropped and the connection closed
StreamDisconnect ==
  /\ streamPc \in {"replay", "loop"}
  /\ streamPc' = "closed"
  /\ pubsub' = <<>>
  /\ UNCHANGED <<delivered, keepalives, subscribedAt, replayed, redisVars>>
  /\ StoreFrame

\* ----------------------------------------------------------- specification
SubmitNext ==
  \/ SubmitBootstrap
  \/ SubmitBootstrapEvent
  \/ SubmitMergeMeta
  \/ SubmitProgress
  \/ SubmitEnqueue
  \/ SubmitEnqueueFails
  \/ SubmitFailHset
  \/ SubmitFailEvent
  \/ SubmitRead

WorkerNext ==
  \/ WorkerPickup
  \/ WorkerStartHset
  \/ WorkerStartEvent
  \/ WorkerResolve
  \/ WorkerCountPrompt
  \/ WorkerSummary
  \/ PollTimeout
  \/ WorkerGuidance
  \/ PopInput
  \/ WorkerBuild
  \/ WorkerShare
  \/ WorkerShareFails
  \/ WorkerFinalize
  \/ WorkerCompleted
  \/ WorkerFinishHset
  \/ WorkerFinishEvent
  \/ WorkerRaise
  \/ WorkerFailHset
  \/ WorkerFailEvent

InputNext ==
  \/ InputRequest
  \/ StorePushEmpty

CancelNext ==
  \/ CancelTerminal
  \/ CancelRaises

Next == SubmitNext \/ WorkerNext \/ InputNext \/ CancelNext

\* The program as it is: the store has no request_cancel.
Spec == Init /\ [][Next]_vars

CancelNextDesigned ==
  \/ CancelTerminal
  \/ CancelBegin
  \/ CancelRequest
  \/ CancelRqJob
  \/ CancelEmptyQueue

NextCancel ==
  \/ SubmitNext
  \/ OtherEnqueue
  \/ WorkerNext
  \/ WorkerOther
  \/ InputNext
  \/ CancelNextDesigned

\* The program with request_cancel supplied as the design describes it, and
\* other jobs' tasks on the queue.
SpecCancel == Init /\ [][NextCancel]_vars

NextWriter ==
  \/ WriterCall
  \/ WriterThrottle
  \/ WriterOperation
  \/ WriterBackoff

\* The Resilient API Writer of one process, for every configured retry
\* limit and both sleep functions.
SpecWriter == InitWriter /\ [][NextWriter]_vars

NextBuffer ==
  \/ BufferUpdate
  \/ BufferFlushRaw
  \/ BufferFlushUser

\* One WorksheetUpdateBuffer and its caller.
SpecBuffer == Init /\ [][NextBuffer]_vars

\* The store built with any positive log_limit up to MaxLimit.
InitStore ==
  /\ InitJob
  /\ WriterInit
  /\ BufferInit
  /\ \E limit \in 1..MaxLimit : RedisInit(limit)
  /\ StreamInit
  /\ BootIdle
  /\ ImageIdle

NextStore ==
  \/ Tick
  \/ WorkerAppendBuild
  \/ WebPushBuild
  \/ AppendEventExecute
  \/ PushUserInputRpush
  \/ PopUserInput

\* One job's log, channel and input queue under two request threads and
\* the Worker calling the store concurrently.
SpecStore == InitStore /\ [][NextStore]_vars

\* What the gateway does while its client stays connected.
StreamServes == StreamReplay \/ StreamMessage \/ StreamKeepAlive

NextStream ==
  \/ WorkerAppendBuild
  \/ AppendEventExecute
  \/ StreamSubscribe
  \/ StreamServes
  \/ StreamDisconnect

\* One stream request for a job whose Worker is appending events.
SpecStream == InitStore /\ [][NextStream]_vars

\* The same, with the Worker and the gateway's generator running on: the
\* WSGI server keeps iterating generate_stream while the client is
\* connected, and the Worker's pipeline executes once it was built.  The
\* client is never obliged to leave.
SpecStreamLive ==
  /\ InitStore
  /\ [][NextStream]_vars
  /\ WF_vars(StreamServes)
  /\ WF_vars(AppendEventExecute)

\* A job id whose keys hold anything a former job may have left.
InitBootstrap ==
  /\ meta \in PriorMetas
  /\ log \in SeqsUpTo(PriorEvents, MaxPrior)
  /\ inputQ \in SeqsUpTo(PriorInputs, MaxPrior)
  /\ taskQueue = <<>>
  /\ submitPc = "idle"
  /\ submitResp = NoResp
  /\ match_count = 0
  /\ workerPc = "none"
  /\ workerExc = NoExc
  /\ workerResult = "none"
  /\ count = 0
  /\ selected = <<>>
  /\ prompt = NoPrompt
  /\ nextPromptId = 1
  /\ user_message = NoEntry
  /\ answer = ""
  /\ polls = 0
  /\ inputsPushed = 0
  /\ cancelPc = "idle"
  /\ cancelResp = NoResp
  /\ cancelCalls = 0
  /\ otherTasks = 0
  /\ WriterInit
  /\ BufferInit
  /\ RedisInit(log_limit)
  /\ StreamInit
  /\ BootIdle
  /\ ImageIdle

NextBootstrap == BootstrapPipeline \/ BootstrapAppendEvent

\* bootstrap called, once or repeatedly, for such a job id.
SpecBootstrap == InitBootstrap /\ [][NextBootstrap]_vars

NextImage == RetryCall \/ RetryAttempt

\* The two retry loops of analytical_rep.py side by side, for any
\* configured retry limit.
SpecImage == InitWriter /\ [][NextImage]_vars

NextPick ==
  \/ SubmitNext
  \/ WorkerNext
  \/ SelectionCountPrompt
  \/ SelectionSummary
  \/ AnswerSelection
  \/ PickUnattended

\* The job with the match selection run either way: with the prompt handler
\* and a user who may change the selection, or without a prompt handler.
SpecPick == Init /\ [][NextPick]_vars

NextQueue ==
  \/ SubmitNext
  \/ WorkerPickup
  \/ WorkerStartHset
  \/ WorkerStartEvent
  \/ WorkerResolve
  \/ WorkerCountPrompt
  \/ WorkerSummary
  \/ PollTimeout
  \/ PopInput
  \/ InputRequestAnyTime

\* The job up to the end of its match selection, with clients that send
\* inputs through the web handler whenever they like.
SpecQueue == Init /\ [][NextQueue]_vars

NextSelect == SubmitNext \/ WorkerNext \/ AnswerPrompt

\* The job with a user who answers each prompt once it is open, and no
\* cancel request.
SpecSelect == Init /\ [][NextSelect]_vars

TypeOK ==
  /\ meta.status \in Statuses \cup {""}
  /\ workerResult \in {"none", "returned", "raised"}
  /\ count \in 0..Available
  /\ nextPromptId \in 1..(MaxPrompts + 1)
  /\ Len(inputQ) <= MaxInputs

\* ------------------------------------------------------------- properties
\* Positions of the events of one type in the log.
EventIdx(t) == {i \in 1..Len(log) : log[i].type = t}

\* queued < started/running < {finished, failed, cancelled}
Rank(s) ==
  CASE s = "queued" -> 0
    [] s \in TerminalStatuses -> 2
    [] OTHER -> 1

\* C1: the statuses of the `status` events in the log never decrease in the
\* order queued < started/running < {finished, failed, cancelled}, and no
\* `status` event follows one with a terminal status.
StatusEventsMonotone ==
  \A i, j \in EventIdx("status") :
    i < j => /\ Rank(log[i].status) <= Rank(log[j].status)
             /\ log[i].status \notin TerminalStatuses

\* A job that went queued, started, terminal, with a cancel request made
\* while it ran.
StatusEventsMonotoneWitness ==
  /\ Cardinality(EventIdx("status")) = 3
  /\ log[Len(log)].type = "status"
  /\ log[Len(log)].status \in TerminalStatuses
  /\ cancelCalls > 0

\* The prompt_resolved events that carry the id of the prompt event at i.
ResolvedOf(i) ==
  {j \in EventIdx("prompt_resolved") : log[j].id = log[i].id}

OpenPrompts == {i \in EventIdx("prompt") : ResolvedOf(i) = {}}

\* C3: a job has at most one open prompt at every moment, and a `prompt`
\* event is appended only when no earlier prompt is open.
AtMostOneOpenPrompt ==
  /\ Cardinality(OpenPrompts) <= 1
  /\ \A i \in OpenPrompts : \A k \in EventIdx("prompt") : k <= i

\* A second prompt is open after the first one was resolved.
AtMostOneOpenPromptWitness ==
  \E i, k \in EventIdx("prompt") :
    i < k /\ ResolvedOf(i) # {} /\ k \in OpenPrompts /\ workerPc = "wait"

\* C4: a prompt_resolved event with id P is appended only for a consumed
\* input whose declared prompt_id is P (or that declares none).
OnlyMatchingInputResolves ==
  [][\A i \in 1..Len(log') :
       (i > Len(log) /\ log'[i].type = "prompt_resolved")
         => user_message'.prompt_id \in {0, log'[i].id}]_vars

\* C5: a poll timeout after a cancel request ends the wait.
CancelObservedAtTimeout ==
  [][polls' > polls => workerPc' # "wait"]_vars

\* C6: a cancel request on a job that is not terminal leaves the meta status
\* `cancelling` and answers `cancelling`.
CancelMarksCancelling ==
  [][cancelCalls' > cancelCalls
       => meta'.status = "cancelling" /\ cancelResp'.status = "cancelling"]_vars

\* C7: a cancel call on a job whose status is finished, failed or cancelled
\* answers 200 with that status and changes neither meta, the log, the input
\* queue nor the task queue.
CancelOnTerminalIsNoop ==
  [][(meta.status \in TerminalStatuses /\ <<cancelPc, cancelResp, cancelCalls>>' # cancelVars)
       => /\ cancelResp' = [code |-> 200, status |-> meta.status]
          /\ cancelCalls' = cancelCalls
          /\ UNCHANGED <<meta, log, inputQ, taskQueue>>]_vars

\* A cancel call was answered with the terminal status of the job.
CancelOnTerminalIsNoopWitness ==
  /\ cancelResp.code = 200
  /\ cancelResp.status = meta.status
  /\ meta.status \in TerminalStatuses

\* C8: once the status is cancelling or cancelled the Worker writes neither
\* started nor running over it, and nothing is written over cancelled.
WorkerKeepsCancellation ==
  [][meta.status \in {"cancelling", "cancelled"}
       => /\ meta'.status \notin {"started", "running"}
          /\ (meta.status = "cancelled" => meta'.status = "cancelled")]_vars

\* C9: when report generation raised, the Worker has appended the error
\* event, then the failed status with the same message in meta.error; an
\* exited Worker never leaves the status started or running.
WorkerFailureRecorded ==
  /\ workerPc = "exited" => meta.status \notin {"started", "running"}
  /\ (workerPc = "exited" /\ workerExc.kind # "none")
       => /\ meta.status = "failed"
          /\ meta.error = workerExc.message
          /\ \E i \in EventIdx("error") : \E j \in EventIdx("status") :
               /\ i < j
               /\ log[i].text = workerExc.message
               /\ log[j].status = "failed"

\* The Worker exited after an unexpected exception.
WorkerFailureRecordedWitness ==
  workerPc = "exited" /\ workerExc.kind = "unexpected"

\* C10 as stated: the Worker function never ends by raising.
NoExceptionEscapes == workerPc = "exited" => workerResult # "raised"

\* C10: the Worker function ends by raising exactly when report generation
\* raised, and only after the failure is recorded (error event, status
\* failed).
FailureRecordedThenReraised ==
  /\ workerPc = "exited" => (workerResult = "raised" <=> workerExc.kind # "none")
  /\ workerResult = "raised"
       => meta.status = "failed" /\ EventIdx("error") # {}

\* The Worker re-raised a domain error to the task queue.
FailureRecordedThenReraisedWitness ==
  workerResult = "raised" /\ workerExc.kind = "domain"

\* A rate-limit rejection: an APIError whose extracted status is 429.
IsRateLimit(error) == error.class = "APIError" /\ extract_api_status(error) = 429

\* The current call ended, and every failure in it was a rate-limit rejection.
EndedOnlyRateLimited ==
  writerPc = "ended" /\ (lastError = NoError \/ IsRateLimit(lastError))

\* C11 as stated: a call that returned had k < max_retries rejections and
\* k+1 attempts; with k >= max_retries the call raises the domain error
\* after max_retries+1 attempts.
RetryLawAsStated ==
  EndedOnlyRateLimited =>
    IF writerResult.kind = "returned"
      THEN rejections < max_retries /\ attempts = rejections + 1
      ELSE /\ writerResult.kind = "AnalyticalReportError"
           /\ attempts = max_retries + 1

\* C11: for every max_retries >= 0, an operation rejected with 429 exactly k
\* times and then succeeding returns after exactly k+1 attempts when
\* k <= max_retries; an operation rejected more than max_retries times makes
\* the writer raise the domain error after exactly max_retries+1 attempts.
RetryLaw ==
  /\ rejections <= max_retries + 1
  /\ EndedOnlyRateLimited =>
       IF lastError = NoError
         THEN /\ writerResult.kind = "returned"
              /\ rejections <= max_retries
              /\ attempts = rejections + 1
         ELSE /\ writerResult.kind = "AnalyticalReportError"
              /\ rejections = max_retries + 1
              /\ attempts = max_retries + 1
  /\ (writerPc = "ended" /\ rejections > max_retries)
       => writerResult.kind = "AnalyticalReportError"

\* A call returned on its last allowed attempt, after max_retries rejections.
RetryLawWitness ==
  /\ writerPc = "ended"
  /\ writerResult.kind = "returned"
  /\ max_retries > 0
  /\ rejections = max_retries

\* C12: an operation failure that is not a rate-limit rejection ends the
\* call: the failing attempt is the last one (one attempt per earlier 429
\* rejection plus this one; exactly one when it is the first attempt).
NonRetryLaw ==
  (lastError # NoError /\ ~IsRateLimit(lastError))
    => /\ writerPc = "ended"
       /\ writerResult.kind \notin {"running", "returned"}
       /\ attempts = rejections + 1

\* A call ended by a status-500 APIError after an earlier 429 rejection.
NonRetryLawWitness ==
  /\ writerPc = "ended"
  /\ lastError = ApiError(500, 0)
  /\ rejections > 0
  /\ attempts = rejections + 1

\* C13: every error that ends a call leaves the writer as the domain error
\* carrying the operation's description.
AllErrorsWrapped ==
  (writerPc = "ended" /\ lastError # NoError)
    => /\ writerResult.kind = "AnalyticalReportError"
       /\ writerResult.description # ""

\* C14: two consecutive operation() invocations of one process start at
\* least the throttle interval apart.
ThrottleSpacing ==
  prevStart >= 0 => curStart - prevStart >= WRITE_THROTTLE_SECONDS

\* C15: the i-th backoff of a call is min(60, base * 2^i), the backoffs are
\* non-decreasing and at most 60, and that is the time actually slept.
BackoffSlept ==
  /\ Len(slept) = Len(requested)
  /\ \A i \in 1..Len(requested) :
       /\ requested[i] = Min(BACKOFF_CEILING, WRITE_BACKOFF_SECONDS * (2 ^ (i - 1)))
       /\ requested[i] <= BACKOFF_CEILING
       /\ (i > 1 => requested[i - 1] <= requested[i])
       /\ slept[i] = requested[i]

\* The entries of a sequence of batches, in the order sent.
RECURSIVE Flatten(_)
Flatten(batches) ==
  IF batches = <<>> THEN <<>> ELSE Head(batches) \o Flatten(Tail(batches))

\* C16: while no write failed, for each mode the batches sent, concatenated
\* in the order sent and followed by what is still buffered, are the
\* update() calls of that mode in call order; after flush() nothing is
\* left in a buffer.
BatchingPreservesWrites ==
  bufferPc # "failed" =>
    \A m \in Modes :
      /\ Flatten(sent[m]) \o buffers[m] = updates[m]
      /\ Len(buffers[m]) < MaxBatch
      /\ \A i \in 1..Len(sent[m]) : sent[m][i] # <<>>
      /\ bufferPc = "flushed" => buffers[m] = <<>> /\ Flatten(sent[m]) = updates[m]

\* flush() completed after one mode was sent in two batches and the other
\* in one.
BatchingPreservesWritesWitness ==
  /\ bufferPc = "flushed"
  /\ \E m \in Modes : Len(sent[m]) >= 2
  /\ \A m \in Modes : updates[m] # <<>>

\* The log holds a progress event with this text.
Notified(text) ==
  \E i \in 1..Len(log) : log[i].type = "progress" /\ log[i].text = text

\* C17: when the publish sub-step or the public-view sub-step failed, its
\* warning is in the log, the result carries URLs (the fallback ones when
\* nothing was published), the error field is not set, and the Worker ends
\* with status finished.
FinalizationFailureDegrades ==
  (Notified("unable_publish") \/ Notified("unable_public_view"))
    => /\ workerExc = NoExc
       /\ meta.error = ""
       /\ meta.result \in {"published_urls", "fallback_urls"}
       /\ Notified("unable_publish") => meta.result = "fallback_urls"
       /\ meta.status # "failed"
       /\ workerPc = "exited" => meta.status = "finished" /\ workerResult = "returned"

\* A job finished with fallback URLs after the publish sub-step failed.
FinalizationFailureDegradesWitness ==
  /\ workerPc = "exited"
  /\ meta.status = "finished"
  /\ meta.result = "fallback_urls"
  /\ Notified("unable_publish")

\* C18: a failure of the share sub-step never becomes the job's error.
ShareFailureNeverFailsJob ==
  workerExc.message # ShareFailure /\ meta.error # ShareFailure

\* C19: for a submitted match_count n >= 1 the selection starts with the
\* first min(n, available) matches, and the clamping warning is notified
\* exactly when n > available.
InitialSelectionClamped ==
  [][(workerPc = "resolve" /\ workerPc' \notin {"resolve", "err_hset"}
        /\ match_count >= 1)
       => /\ workerPc' = "summary"
          /\ count' = Min(match_count, Available)
          /\ SubSeq(Matches, 1, count') = [i \in 1..Min(match_count, Available) |-> Matches[i]]
          /\ log' = IF match_count > Available
                      THEN Append(log, ProgressEvent("clamp"))
                      ELSE log]_vars

\* A request above the history was clamped, with the warning.
InitialSelectionClampedWitness ==
  /\ workerPc = "summary"
  /\ match_count > Available
  /\ count = Available
  /\ log[Len(log)] = ProgressEvent("clamp")

\* C20: the status submit returns with its 202 response is queued.
SubmitReadsQueued == submitResp.code = 202 => submitResp.status = "queued"

\* C21: a submit that ended without enqueueing a task answered with an
\* error and left the job record in status failed with the error message,
\* never in status queued.
EnqueueFailureRecorded ==
  (submitPc = "done" /\ submitResp.code # 202)
    => /\ submitResp.code = 500
       /\ taskQueue = <<>>
       /\ workerPc = "none"
       /\ meta.exists
       /\ meta.status = "failed"
       /\ meta.error = "enqueue"
       /\ log[Len(log)] = StatusEvent("failed")

\* The enqueue call raised and the handler answered 500.
EnqueueFailureRecordedWitness ==
  /\ submitPc = "done"
  /\ submitResp.code = 500
  /\ meta.status = "failed"

\* What pop_user_input would decode from a list of serialized payloads.
Decoded(q) == [i \in 1..Len(q) |-> json_loads(q[i])]

\* The user_message events appended whose payload is that of entry e.
UserEventsOf(e) ==
  {i \in 1..Len(appends) :
     /\ json_loads(appends[i]).type = "user_message"
     /\ json_loads(appends[i]).origin = "user"
     /\ json_loads(appends[i]).payload = user_payload(e.message, e.author, e.prompt_id)}

\* C22: every push_user_input call appended exactly one user_message event
\* and queued exactly one entry with the same message, author and prompt_id
\* (a call between its two commands has the event only); what
\* pop_user_input returned, followed by what is still queued, is what was
\* pushed, in push order: entries come out in order, once, never again.
PushOnceFifo ==
  /\ popped \o Decoded(input_key) = pushed
  /\ \A i \in 1..Len(pushed) :
       /\ Cardinality(UserEventsOf(pushed[i])) = 1
       /\ \A j \in 1..Len(pushed) : pushed[i].message = pushed[j].message => i = j
  /\ \A i \in 1..Len(appends) :
       LET ev == json_loads(appends[i])
       IN ev.type = "user_message"
            => \/ \E k \in 1..Len(pushed) : pushed[k].message = ev.payload.message
               \/ \E p \in Webs : /\ callers[p].pc = "rpush"
                                  /\ callers[p].args.message = ev.payload.message

\* Two entries were pushed, the first was popped, the second is waiting.
PushOnceFifoWitness ==
  /\ Len(pushed) = 2
  /\ popped = <<pushed[1]>>
  /\ Decoded(input_key) = <<pushed[2]>>
  /\ pushed[1].prompt_id # pushed[2].prompt_id

\* C28: the stored log holds at most log_limit events and is the most
\* recent min(n, log_limit) of the n events appended since bootstrap, in
\* append order; what was published is, event by event, the serialized
\* event that was appended.
LogIsRecentTail ==
  LET n == Len(appends)
      kept == Min(n, store_log_limit)
  IN /\ Len(raw_log) <= store_log_limit
     /\ Len(raw_log) = kept
     /\ \A i \in 1..kept : raw_log[i] = appends[n - kept + i]
     /\ published = appends

\* More events were appended than the log keeps: the oldest was dropped.
LogIsRecentTailWitness ==
  /\ Len(appends) > store_log_limit
  /\ Len(raw_log) = store_log_limit
  /\ raw_log[1] # appends[1]
  /\ raw_log[Len(raw_log)] = published[Len(published)]

\* C29: along the stored log, an earlier event's timestamp is less than or
\* equal to a later event's timestamp.
TimestampsNonDecreasing ==
  \A i \in 1..Len(raw_log) : \A j \in i..Len(raw_log) :
    json_loads(raw_log[i]).timestamp <= json_loads(raw_log[j]).timestamp

\* The events yielded to the client.
Delivered == {delivered[i] : i \in 1..Len(delivered)}

\* C23: once the stream is past its replay, every event that was in the log
\* when it was replayed has been yielded, and every event appended after
\* the subscription has been yielded or is waiting on the subscription for
\* the next get_message.
StreamMissesNothing ==
  streamPc = "loop"
    => /\ \A i \in 1..Len(replayed) : json_loads(replayed[i]) \in Delivered
       /\ \A i \in (subscribedAt + 1)..Len(appends) :
            \/ json_loads(appends[i]) \in Delivered
            \/ \E k \in 1..Len(pubsub) : pubsub[k] = appends[i]

\* An event appended between subscribe and replay was trimmed from the log
\* before the replay and reached the client through the subscription.
StreamMissesNothingWitness ==
  /\ streamPc = "loop"
  /\ pubsub = <<>>
  /\ subscribedAt < Len(appends)
  /\ \E i \in (subscribedAt + 1)..Len(appends) :
       /\ \A k \in 1..Len(replayed) : replayed[k] # appends[i]
       /\ json_loads(appends[i]) \in Delivered

\* C24: once the job's terminal status event was appended and yielded to a
\* connected client, the stream eventually terminates.
StreamTerminates ==
  (/\ streamPc = "loop"
   /\ JobEnded
   /\ json_loads(appends[Len(appends)]) \in Delivered)
    ~> (streamPc = "closed")

\* C25: an update() call that returns leaves fewer than max_batch_size
\* entries in each mode's buffer; it flushes the buffer of its own mode,
\* whole, exactly when the new entry brings it to max_batch_size, and leaves
\* the other mode's buffer and batches as they were; when flush() has
\* returned, both buffers are empty.
UpdateFlushesOnlyItsMode ==
  [][/\ (nextEntry' # nextEntry /\ bufferPc' # "failed")
          => /\ \A m \in Modes : Len(buffers'[m]) < MaxBatch
             /\ \E key \in Modes :
                  /\ \A m \in Modes \ {key} :
                       buffers'[m] = buffers[m] /\ sent'[m] = sent[m]
                  /\ IF Len(buffers[key]) + 1 >= MaxBatch
                       THEN /\ buffers'[key] = <<>>
                            /\ sent'[key] = Append(sent[key], Append(buffers[key], nextEntry))
                       ELSE /\ buffers'[key] = Append(buffers[key], nextEntry)
                            /\ sent'[key] = sent[key]
     /\ bufferPc' = "flushed" => \A m \in Modes : buffers'[m] = <<>>]_vars

\* One mode was flushed by update() while the other mode's entry stayed
\* buffered.
UpdateFlushesOnlyItsModeWitness ==
  /\ bufferPc = "open"
  /\ \E key \in Modes :
       /\ Len(sent[key]) = 1
       /\ buffers[key] = <<>>
       /\ \A m \in Modes \ {key} : sent[m] = <<>> /\ Len(buffers[m]) = MaxBatch - 1

\* C26: whatever response a prompt of the match selection returns, no error
\* is raised; a confirmation that is neither a yes-value nor a no-value, and
\* a count that is not a positive integer, are answered by the guidance
\* progress event and lead back to the same prompt being asked again; the
\* selection is left for the build only by a yes-valued confirmation.
SelectionNeverFails ==
  [][/\ (prompt # NoPrompt /\ prompt' = NoPrompt)
          => /\ workerExc' = NoExc
             /\ workerPc' \in {"summary", "count_prompt", "build"}
             /\ (prompt.kind = "confirm" /\ answer' \notin yes_values \cup no_values)
                  => /\ workerPc' = "summary"
                     /\ count' = count
                     /\ log' = log \o <<PromptResolvedEvent(prompt.id, answer'),
                                        ProgressEvent("yes_or_no")>>
             /\ (prompt.kind = "count" /\ ParseInt(answer') <= 0)
                  => /\ workerPc' = "count_prompt"
                     /\ count' = count
                     /\ log' = log \o <<PromptResolvedEvent(prompt.id, answer'),
                                        ProgressEvent("positive_integer")>>
             /\ workerPc' = "build"
                  => prompt.kind = "confirm" /\ answer' \in yes_values
     /\ (workerPc # "build" /\ workerPc' = "build") => prompt # NoPrompt
     /\ (workerPc = "count_prompt" /\ workerPc' # workerPc)
          => workerPc' = "wait" /\ prompt'.kind = "count"
     /\ (workerPc = "summary" /\ workerPc' \notin {workerPc, "err_hset"})
          => workerPc' = "wait" /\ prompt'.kind = "confirm"]_vars

\* An unusable answer was followed by guidance and the second asking of the
\* same question.
SelectionNeverFailsWitness ==
  /\ workerPc = "wait"
  /\ prompt.id = 2
  /\ workerExc = NoExc
  /\ \E i \in 1..Len(log) :
       /\ log[i].type = "progress"
       /\ \/ log[i].text = "yes_or_no" /\ prompt.kind = "confirm"
          \/ log[i].text = "positive_integer" /\ prompt.kind = "count"

\* C27: a no-valued confirmation leads, with the count unchanged, to the
\* count prompt; a count prompt asked while a count is selected declares that
\* count as its default; an empty answer to it resolves to that default and
\* the count stays what it was.
ChangeSelectionKeepsCount ==
  [][/\ (prompt.kind = "confirm" /\ prompt' = NoPrompt /\ answer' \in no_values)
          => workerPc' = "count_prompt" /\ count' = count /\ count > 0
     /\ (workerPc = "count_prompt" /\ workerPc' # workerPc)
          => /\ workerPc' = "wait"
             /\ prompt'.kind = "count"
             /\ count' = count
             /\ count > 0 => prompt'.default = StrInt(count)
             /\ log'[Len(log')] = PromptEvent(prompt'.id, prompt'.default)
     /\ (prompt.kind = "count" /\ prompt' = NoPrompt /\ count > 0
           /\ user_message'.message = "")
          => /\ answer' = StrInt(count)
             /\ count' = count
             /\ workerPc' = "summary"]_vars

\* After "no" to the confirmation, the count prompt was answered with an
\* empty message and the count is the one selected before.
ChangeSelectionKeepsCountWitness ==
  /\ workerPc = "summary"
  /\ user_message.message = ""
  /\ count > 0
  /\ answer = StrInt(count)
  /\ \E i \in 1..Len(log) :
       /\ log[i] = PromptResolvedEvent(1, "no")
       /\ log[Len(log)] = PromptResolvedEvent(2, StrInt(count))
       /\ \E k \in i..Len(log) : log[k] = PromptEvent(2, StrInt(count))

\* C30: while a prompt is open and the input queue is empty, the Worker
\* stays waiting on it: no step fails or finishes the job for lack of an
\* answer.
OpenPromptHasNoDeadline ==
  [][(workerPc = "wait" /\ inputQ = <<>>)
       => /\ workerPc' = "wait"
          /\ workerExc' = NoExc
          /\ meta'.status \notin {"failed", "finished"}]_vars

\* C31: when the Worker consumes an input whose text is empty after
\* trimming, a prompt that declared a default is resolved with that default
\* as the response; for a prompt without default the guidance progress event
\* is the only event appended and the same prompt stays open.
EmptyInputUsesDefault ==
  [][(workerPc = "wait" /\ inputQ # <<>> /\ inputQ' = Tail(inputQ)
        /\ strip(Head(inputQ).message) = "")
       => IF prompt.default # NoDefault
            THEN /\ answer' = prompt.default
                 /\ prompt' = NoPrompt
                 /\ Len(log') > Len(log)
                 /\ log'[Len(log) + 1] = PromptResolvedEvent(prompt.id, prompt.default)
            ELSE /\ log' = Append(log, ProgressEvent("guidance"))
                 /\ prompt' = prompt
                 /\ workerPc' = "wait"
                 /\ answer' = answer]_vars

\* A blank answer to the count prompt without default was met with guidance
\* and the prompt is still open; nothing was resolved.
EmptyInputUsesDefaultWitness ==
  /\ workerPc = "wait"
  /\ prompt.kind = "count"
  /\ prompt.default = NoDefault
  /\ user_message.message = " "
  /\ inputQ = <<>>
  /\ log[Len(log)] = ProgressEvent("guidance")
  /\ \A i \in 1..Len(log) : log[i].type # "prompt_resolved"

\* C32: in every state where meta's status is finished, meta holds the
\* result and the log holds the completed event, before any finished status
\* event.
FinishedAfterCompleted ==
  meta.status = "finished"
    => /\ meta.result # ""
       /\ \E i \in 1..Len(log) :
            /\ log[i].type = "completed"
            /\ \A j \in 1..Len(log) :
                 (log[j].type = "status" /\ log[j].status = "finished") => i < j

\* The Worker returned: result in meta, completed event, finished event last.
FinishedAfterCompletedWitness ==
  /\ workerPc = "exited"
  /\ meta.status = "finished"
  /\ meta.result # ""
  /\ log[Len(log)] = StatusEvent("finished")
  /\ log[Len(log) - 1] = CompletedEvent

\* C33: when bootstrap has returned, the log holds exactly one event, a
\* status event with status queued, the input queue is empty and the meta
\* holds only the initial fields with status queued, whatever was stored
\* before; a second call in a row leaves the state the first one left.
BootstrapResets ==
  bootPc = "returned" =>
    /\ log = <<StatusEvent("queued")>>
    /\ inputQ = <<>>
    /\ meta = bootstrap_meta
    /\ (bootCalls = 2 => prior = [meta |-> meta, log |-> log, inputQ |-> inputQ])

\* A second call in a row returned.
BootstrapTwice ==
  /\ bootPc = "returned"
  /\ bootCalls = 2
  /\ log = <<StatusEvent("queued")>>
  /\ prior.meta = bootstrap_meta

\* A first call returned for a job id that held another job's state.
BootstrapResetsWitness ==
  /\ bootPc = "returned"
  /\ bootCalls = 1
  /\ prior.meta.result = "result"
  /\ Len(prior.log) = MaxPrior
  /\ Len(prior.inputQ) = MaxPrior

\* The status of the most recent status event of a log ("" when it has none)
LatestLoggedStatus(l) ==
  LET at == {i \in 1..Len(l) : l[i].type = "status"}
  IN IF at = {} THEN ""
     ELSE l[CHOOSE i \in at : \A j \in at : j <= i].status

\* C34: in every state a concurrent reader can observe, the status stored
\* in the job's meta is the status of the most recent status event of the
\* job's log, also while a bootstrap or update_status call is in progress.
MetaAndLogAgreeOnStatus ==
  meta.exists => meta.status = LatestLoggedStatus(log)

\* C35: given the same sequence of answers, _add_image's loop and
\* _execute_with_retry make the same number of attempts, throttle before
\* every attempt, sleep the same backoffs min(60, base * 2^attempt) and end
\* the same way: both return, or both raise AnalyticalReportError (or both
\* let an error of a foreign class through).
ImageLoopFollowsRetryLaw ==
  /\ imageRun.pc = execRun.pc
  /\ imageRun.attempts = execRun.attempts
  /\ imageRun.throttles = execRun.throttles
  /\ imageRun.throttles = imageRun.attempts
  /\ imageRun.backoffs = execRun.backoffs
  /\ \A i \in 1..Len(imageRun.backoffs) :
       imageRun.backoffs[i] = Min(BACKOFF_CEILING, WRITE_BACKOFF_SECONDS * (2 ^ (i - 1)))
  /\ imageRun.result = execRun.result
  /\ (imageRun.pc = "ended" /\ imageRun.result # "ConnectionError")
       => imageRun.result \in {"returned", "AnalyticalReportError"}

\* Both loops gave up after the last allowed retry was rejected as well.
ImageLoopFollowsRetryLawWitness ==
  /\ max_retries > 0
  /\ imageRun.pc = "ended"
  /\ execRun.pc = "ended"
  /\ imageRun.result = "AnalyticalReportError"
  /\ Len(imageRun.backoffs) = max_retries
  /\ imageRun.attempts = max_retries + 1

\* C36: when the match selection has returned, with or without a prompt
\* handler and whatever was answered, the returned list is not empty, has
\* between 1 and `available` entries, all of them matches of the team's
\* history, and is the prefix of the most-recent-first list that has the
\* length of the count chosen last.
PickReturnsRecentPrefix ==
  workerPc = "build" =>
    /\ selected # <<>>
    /\ Len(selected) \in 1..Available
    /\ \A i \in 1..Len(selected) : \E j \in 1..Len(Matches) : selected[i] = Matches[j]
    /\ count \in 1..Available
    /\ selected = [i \in 1..count |-> Matches[i]]

\* The selection returned after the user changed it to a count above the
\* history.
PickReturnsRecentPrefixWitness ==
  /\ workerPc = "build"
  /\ match_count = 1
  /\ Len(selected) = Available
  /\ \E i \in 1..Len(log) : log[i].type = "user_message" /\ log[i].text = "4"

\* The selection returned without a prompt.
PickReturnedUnattended ==
  /\ workerPc = "build"
  /\ nextPromptId = 1
  /\ selected # <<>>

\* The texts of the events of one type, in log order
TextsOf(l, type) ==
  LET s == SelectSeq(l, LAMBDA ev : ev.type = type)
  IN [i \in 1..Len(s) |-> s[i].text]

====
